---- MODULE Spec2Model ----
(***************************************************************************)
(* node_bpf: map handles (FDRef / MapRef), the raw map interfaces          *)
(* (RawMap, RawArrayMap, RawQueueMap), the key iteration protocol and the  *)
(* batch protocol, modelled as state machines over an abstract kernel map. *)
(***************************************************************************)
EXTENDS Integers, Sequences, FiniteSets

VARIABLES
    fd,         \* FDRef::fd, -1 once closed
    origFd,     \* descriptor number the handle was constructed with
    closeLog,   \* arguments of the close(2) calls issued by the binding
    userCloses, \* number of close() calls made by the caller
    finalized,  \* ~FDRef has run
    aborted,    \* a failed assert(status == 0) ended the process
    ndebug,     \* the addon was built with NDEBUG (assert compiled out)
    ref,        \* frozen map metadata of the handle
    kmap,       \* kernel side contents: sequence of [k, v]
    kfrozen,    \* kernel side: the map was frozen (BPF_MAP_FREEZE)
    lastOp,     \* outcome of the last library call
    gb,         \* the getBatch generator: position, locals, kernel call log
    bcall,      \* last kernel batch call: status, count reported, count used
    bop,        \* outcome of the last setBatch / deleteBatch / getAll / setAll
    it,         \* the keys / entries / values generator and what it has yielded
    proc,       \* descriptor table of the process, the handles made, the last creation
    qu,         \* queue / stack: values pushed and popped, the consumeValues generator
    ifs         \* the interfaces constructed over the handle, the last converted call

handleVars == <<fd, origFd, closeLog, userCloses, finalized, aborted, ndebug>>
mapVars == <<ref, kmap>>

\* ---------------------------------------------------------------- constants

ENOENT == 2
EFAULT == 14
EINVAL == 22
ENOTSUPP == 524
E2BIG == 7
EBADF == 9
EMFILE == 24
EPERM == 1
EBUSY == 16
ENOSPC == 28

KeySize == 4
ValueSize == 4

\* ------------------------------------------------------------------- bounds

MaxKey == 1
MaxVal == 1
MaxEntries == 1
MaxCloseCalls == 2
MaxBatch == 2
MaxCalls == 3
MaxIterKey == 2
MaxRefEntries == 2
MaxFdNum == 4
MaxRefs == 2
MaxPushes == 2

\* descriptor numbers the kernel may hand out
Fds == {3}
KeyVals == 0 .. MaxKey
Vals == 0 .. MaxVal
MapTypes == {"HASH", "ARRAY", "QUEUE", "STACK"}

None == <<>>
Some(x) == <<x>>

\* A Buffer: its length and (when it is a well-sized key or value) its content
Buf(l, x) == [len |-> l, val |-> x]
BufLens == {0, ValueSize, ValueSize + 1}
KeyBufs == {Buf(KeySize, x) : x \in KeyVals} \cup {Buf(l, 0) : l \in BufLens}
ValBufs == {Buf(ValueSize, x) : x \in Vals} \cup {Buf(l, 0) : l \in BufLens}
OutBufs == {None} \cup {Some(Buf(l, 0)) : l \in BufLens}

\* ------------------------------------------------------ kernel map (bpf(2))

Entry(k, v) == [k |-> k, v |-> v]
HasKey(m, k) == \E i \in DOMAIN m : m[i].k = k
IndexOf(m, k) == CHOOSE i \in DOMAIN m : m[i].k = k
RemoveAt(m, i) == [j \in 1 .. (Len(m) - 1) |-> IF j < i THEN m[j] ELSE m[j + 1]]
InsertAt(m, i, e) ==
    [j \in 1 .. (Len(m) + 1) |-> IF j < i THEN m[j] ELSE IF j = i THEN e ELSE m[j - 1]]

KRes(st, m, v) == [st |-> st, m |-> m, v |-> v]

\* BPF_MAP_LOOKUP_ELEM
KLookup(t, m, k) ==
    CASE t = "HASH" ->
            IF HasKey(m, k) THEN KRes(0, m, m[IndexOf(m, k)].v) ELSE KRes(-ENOENT, m, 0)
      [] t = "ARRAY" ->
            IF k < Len(m) THEN KRes(0, m, m[k + 1].v) ELSE KRes(-ENOENT, m, 0)
      [] t = "QUEUE" ->
            IF m = <<>> THEN KRes(-ENOENT, m, 0) ELSE KRes(0, m, m[1].v)
      [] t = "STACK" ->
            IF m = <<>> THEN KRes(-ENOENT, m, 0) ELSE KRes(0, m, m[Len(m)].v)

\* BPF_MAP_UPDATE_ELEM: the set of possible outcomes (a new hash entry lands
\* in a bucket the caller does not control)
KUpdate(t, m, k, v, cap) ==
    CASE t = "HASH" ->
            IF HasKey(m, k)
            THEN {KRes(0, [m EXCEPT ![IndexOf(m, k)].v = v], 0)}
            ELSE IF Len(m) >= cap
                 THEN {KRes(-E2BIG, m, 0)}
                 ELSE {KRes(0, InsertAt(m, i, Entry(k, v)), 0) : i \in 1 .. (Len(m) + 1)}
      [] t = "ARRAY" ->
            IF k < Len(m)
            THEN {KRes(0, [m EXCEPT ![k + 1].v = v], 0)}
            ELSE {KRes(-E2BIG, m, 0)}
      [] t \in {"QUEUE", "STACK"} ->
            IF Len(m) >= cap
            THEN {KRes(-E2BIG, m, 0)}
            ELSE {KRes(0, Append(m, Entry(0, v)), 0)}

\* BPF_MAP_DELETE_ELEM
KDelete(t, m, k) ==
    CASE t = "HASH" ->
            IF HasKey(m, k) THEN KRes(0, RemoveAt(m, IndexOf(m, k)), 0) ELSE KRes(-ENOENT, m, 0)
      [] OTHER -> KRes(-EINVAL, m, 0)

\* BPF_MAP_LOOKUP_AND_DELETE_ELEM
KLookupAndDelete(t, m, k) ==
    CASE t = "HASH" ->
            IF HasKey(m, k)
            THEN KRes(0, RemoveAt(m, IndexOf(m, k)), m[IndexOf(m, k)].v)
            ELSE KRes(-ENOENT, m, 0)
      [] t = "ARRAY" -> KRes(-ENOTSUPP, m, 0)
      [] t = "QUEUE" ->
            IF m = <<>> THEN KRes(-ENOENT, m, 0) ELSE KRes(0, Tail(m), m[1].v)
      [] t = "STACK" ->
            IF m = <<>> THEN KRes(-ENOENT, m, 0)
            ELSE KRes(0, SubSeq(m, 1, Len(m) - 1), m[Len(m)].v)

\* BPF_MAP_GET_NEXT_KEY: k is None or Some(key); an unknown key restarts at
\* the first key
KGetNextKey(t, m, k) ==
    CASE t \in {"HASH", "ARRAY"} ->
            IF k = None \/ ~HasKey(m, k[1])
            THEN IF m = <<>> THEN KRes(-ENOENT, m, 0) ELSE KRes(0, m, m[1].k)
            ELSE IF IndexOf(m, k[1]) = Len(m)
                 THEN KRes(-ENOENT, m, 0)
                 ELSE KRes(0, m, m[IndexOf(m, k[1]) + 1].k)
      [] OTHER -> KRes(-EINVAL, m, 0)

\* contents of a newly created map
EmptyMap(t, cap) ==
    IF t = "ARRAY" THEN [i \in 1 .. cap |-> Entry(i - 1, 0)] ELSE <<>>

\* metadata reported for a created map
MapInfo(t, cap) ==
    [type |-> t,
     keySize |-> IF t \in {"QUEUE", "STACK"} THEN 0 ELSE KeySize,
     valueSize |-> ValueSize,
     maxEntries |-> cap]

\* --------------------------------------------------------- FDRef (binding)

\* FDRef::GetFD: "FD was closed" is thrown when fd == -1
FDWasClosedNever == FALSE
FDWasClosed == fd = -1

\* the descriptor f names the map (it is open in the process)
FdOpen(f) == f = origFd /\ \A i \in DOMAIN closeLog : closeLog[i] # f

\* body of ~FDRef and FDRef::Close: close(fd) once, then forget the descriptor
DoCloseKeepFd(status) ==
    IF fd # -1
    THEN /\ closeLog' = Append(closeLog, fd)
         /\ aborted' = (status # 0 /\ ~ndebug)
         /\ fd' = fd
    ELSE UNCHANGED <<closeLog, aborted, fd>>
DoClose(status) ==
    IF fd # -1
    THEN /\ closeLog' = Append(closeLog, fd)
         /\ aborted' = (status # 0 /\ ~ndebug)
         /\ fd' = IF status # 0 /\ ~ndebug THEN fd ELSE -1
    ELSE UNCHANGED <<closeLog, aborted, fd>>

Alive == ~finalized /\ ~aborted

OpRec(op, key, value, out, err, errno, ret, kcall, changed) ==
    [op |-> op, key |-> key, value |-> value, out |-> out,
     err |-> err, errno |-> errno, ret |-> ret, kcall |-> kcall, changed |-> changed,
     st |-> 0]

\* the record left by the construction of the handle
NoOp == OpRec("new", None, None, None, "none", 0, None, FALSE, FALSE)

\* MapRef.close()
Close ==
    /\ Alive
    /\ userCloses < MaxCloseCalls
    /\ \E status \in {0, -1} : DoClose(status)
    /\ userCloses' = userCloses + 1
    /\ lastOp' = OpRec("close", None, None, None, "none", 0, None, FALSE, FALSE)
    /\ UNCHANGED <<origFd, finalized, ndebug, ref, kfrozen, kmap>>

\* garbage collection of the handle: ~FDRef
Finalize ==
    /\ Alive
    /\ \E status \in {0, -1} : DoClose(status)
    /\ finalized' = TRUE
    /\ lastOp' = OpRec("finalize", None, None, None, "none", 0, None, FALSE, FALSE)
    /\ UNCHANGED <<origFd, userCloses, ndebug, ref, kfrozen, kmap>>

\* MapRef.fd
ReadFD ==
    /\ Alive
    /\ lastOp' = IF FDWasClosed
                 THEN OpRec("fd", None, None, None, "closed", 0, None, FALSE, FALSE)
                 ELSE OpRec("fd", None, None, None, "none", 0, Some(fd), FALSE, FALSE)
    /\ UNCHANGED <<handleVars, ref, kfrozen, kmap>>

\* reading type, keySize, valueSize, maxEntries or flags of a handle: data
\* properties that createMapRef assigned and froze, read without the binding
InfoErrClosed == IF fd = -1 THEN "closed" ELSE "none"
InfoErr == "none"

ReadInfo ==
    /\ Alive
    /\ lastOp' = OpRec("info", None, None, None, InfoErr, 0,
                       IF InfoErr = "none" THEN Some(ref) ELSE None, FALSE, FALSE)
    /\ UNCHANGED <<handleVars, ref, kfrozen, kmap>>

\* ------------------------------------------------- raw interfaces, one call

\* _checkBuf passes
CheckBufAtMost(size, x) == x.len <= size
CheckBuf(size, x) == x.len = size
\* _getBuf passes (x is None or Some(buffer))
GetBuf(size, x) == x = None \/ CheckBuf(size, x[1])

\* outcome of a call: what is thrown or returned, whether the kernel was
\* entered, and the kernel map afterwards
Thrown(err) ==
    [err |-> err, errno |-> 0, ret |-> None, kcall |-> FALSE, m |-> kmap, st |-> 0]
Done(r, ret) ==
    IF r.st < 0
    THEN [err |-> "bpf", errno |-> -r.st, ret |-> None, kcall |-> TRUE, m |-> r.m,
          st |-> r.st]
    ELSE [err |-> "none", errno |-> 0, ret |-> ret, kcall |-> TRUE, m |-> r.m,
          st |-> r.st]
\* ENOENT is the absent result of get / getDelete / getNextKey / peek / pop
DoneMaybeThrow(r) == Done(r, Some(r.v))
DoneMaybe(r) ==
    IF r.st = -ENOENT
    THEN [err |-> "none", errno |-> 0, ret |-> None, kcall |-> TRUE, m |-> r.m,
          st |-> r.st]
    ELSE Done(r, Some(r.v))
\* ENOENT is the false result of delete
DoneBool(r) ==
    IF r.st = -ENOENT
    THEN [err |-> "none", errno |-> 0, ret |-> Some(FALSE), kcall |-> TRUE, m |-> r.m,
          st |-> r.st]
    ELSE Done(r, Some(TRUE))

\* the native call sees the descriptor read from the handle
Native(f, r) == IF FdOpen(f) THEN r ELSE KRes(-EBADF, kmap, 0)
\* update, delete and lookup-and-delete are refused on a frozen map
NativeWrite(f, r) ==
    IF ~FdOpen(f) THEN KRes(-EBADF, kmap, 0)
    ELSE IF kfrozen THEN KRes(-EPERM, kmap, 0)
    ELSE r

RawMap_get(key, out) ==
    IF ~CheckBuf(ref.keySize, key) THEN Thrown("size")
    ELSE IF ~GetBuf(ref.valueSize, out) THEN Thrown("size")
    ELSE IF FDWasClosed THEN Thrown("closed")
    ELSE DoneMaybe(Native(fd, KLookup(ref.type, kmap, key.val)))

RawMap_getDelete(key, out) ==
    IF ~CheckBuf(ref.keySize, key) THEN Thrown("size")
    ELSE IF ~GetBuf(ref.valueSize, out) THEN Thrown("size")
    ELSE IF FDWasClosed THEN Thrown("closed")
    ELSE DoneMaybe(NativeWrite(fd, KLookupAndDelete(ref.type, kmap, key.val)))

RawMap_set(key, value) ==
    IF ~CheckBuf(ref.keySize, key) THEN {Thrown("size")}
    ELSE IF ~CheckBuf(ref.valueSize, value) THEN {Thrown("size")}
    ELSE IF FDWasClosed THEN {Thrown("closed")}
    ELSE {Done(NativeWrite(fd, r), None) : r \in KUpdate(ref.type, kmap, key.val, value.val, ref.maxEntries)}

RawMap_delete(key) ==
    IF ~CheckBuf(ref.keySize, key) THEN Thrown("size")
    ELSE IF FDWasClosed THEN Thrown("closed")
    ELSE DoneBool(NativeWrite(fd, KDelete(ref.type, kmap, key.val)))

\* key and out are None or Some(buffer)
RawMap_getNextKey(key, out) ==
    IF key # None /\ ~CheckBuf(ref.keySize, key[1]) THEN Thrown("size")
    ELSE IF ~GetBuf(ref.keySize, out) THEN Thrown("size")
    ELSE IF FDWasClosed THEN Thrown("closed")
    ELSE DoneMaybe(Native(fd, KGetNextKey(ref.type, kmap,
                              IF key = None THEN None ELSE Some(key[1].val))))

\* freeze(): BPF_MAP_FREEZE is refused on a frozen map and on kernels without it
KFreeze == IF kfrozen THEN {-EBUSY} ELSE {0, -EINVAL}

RawMap_freezeNoCall ==
    IF FDWasClosed THEN {Thrown("closed")}
    ELSE {[Done(KRes(0, kmap, 0), None) EXCEPT !.kcall = FALSE]}
RawMap_freeze ==
    IF FDWasClosed THEN {Thrown("closed")}
    ELSE {Done(Native(fd, KRes(st, kmap, 0)), None) : st \in KFreeze}

Apply(op, key, value, out, res) ==
    /\ lastOp' = [OpRec(op, key, value, out, res.err, res.errno, res.ret, res.kcall,
                         res.m # kmap) EXCEPT !.st = res.st]
    /\ kmap' = res.m
    /\ UNCHANGED <<handleVars, ref, kfrozen>>

Get ==
    /\ Alive
    /\ \E key \in KeyBufs, out \in OutBufs :
          Apply("RawMap.get", Some(key), None, out, RawMap_get(key, out))

GetDelete ==
    /\ Alive
    /\ \E key \in KeyBufs, out \in OutBufs :
          Apply("RawMap.getDelete", Some(key), None, out, RawMap_getDelete(key, out))

Set ==
    /\ Alive
    /\ \E key \in KeyBufs, value \in ValBufs :
          \E res \in RawMap_set(key, value) :
             Apply("RawMap.set", Some(key), Some(value), None, res)

Delete ==
    /\ Alive
    /\ \E key \in KeyBufs :
          Apply("RawMap.delete", Some(key), None, None, RawMap_delete(key))

GetNextKey ==
    /\ Alive
    /\ \E key \in {None} \cup {Some(b) : b \in KeyBufs}, out \in OutBufs :
          Apply("RawMap.getNextKey", key, None, out, RawMap_getNextKey(key, out))

Freeze ==
    /\ Alive
    /\ \E res \in RawMap_freeze :
          /\ lastOp' = [OpRec("RawMap.freeze", None, None, None, res.err, res.errno, res.ret,
                              res.kcall, FALSE) EXCEPT !.st = res.st]
          /\ kfrozen' = (kfrozen \/ (res.kcall /\ res.st = 0))
    /\ UNCHANGED <<handleVars, ref, kmap>>

\* Object.freeze(ref) at the end of createMapRef: the object handed to the
\* caller is frozen
ObjectIsFrozenNot == FALSE
ObjectIsFrozen == TRUE

\* the metadata properties of a handle, and a value other than the present
\* one for each
InfoFields == {"type", "keySize", "valueSize", "maxEntries"}
OtherValue(f) ==
    IF f = "type" THEN (IF ref.type = "HASH" THEN "ARRAY" ELSE "HASH") ELSE ref[f] + 1

\* `ref.f = x` by the caller: on a frozen object the assignment is dropped,
\* with a TypeError in strict mode code
AssignInfo ==
    /\ Alive
    /\ \E f \in InfoFields, strict \in BOOLEAN :
          /\ ref' = IF ObjectIsFrozen THEN ref ELSE [ref EXCEPT ![f] = OtherValue(f)]
          /\ lastOp' = OpRec("assign", None, None, None,
                             IF ObjectIsFrozen /\ strict THEN "type" ELSE "none",
                             0, None, FALSE, FALSE)
    /\ UNCHANGED <<handleVars, kfrozen, kmap>>

\* a JavaScript number hi * 2^16 + lo + tenths / 10, with 0 <= lo < 2^16 and
\* 0 <= tenths < 10
Num(hi, lo, tenths) == [hi |-> hi, lo |-> lo, tenths |-> tenths]
NumOf(i) == Num(i \div (2 ^ 16), i % (2 ^ 16), 0)
IntOf(x) == x.hi * (2 ^ 16) + x.lo
\* x >>> 0: the fraction is dropped towards zero, the integer taken modulo 2^32
ToUint32(x) ==
    LET up == x.hi < 0 /\ x.tenths # 0
        lo == IF up THEN (x.lo + 1) % (2 ^ 16) ELSE x.lo
        hi == IF up /\ x.lo + 1 = 2 ^ 16 THEN x.hi + 1 ELSE x.hi
    IN Num(hi % (2 ^ 16), lo, 0)

\* util.checkU32 passes: x === (x >>> 0)
CheckU32(x) == x = ToUint32(x)
\* RawArrayMap._checkIndex passes (length is ref.maxEntries)
CheckIndexU32Only(x) == CheckU32(x)
CheckIndex(x) == CheckU32(x) /\ ~(IntOf(x) >= ref.maxEntries)

\* numbers a caller may pass as an index: -1 .. length, 0.2 and 2^32
Indexes == {NumOf(i) : i \in -1 .. ref.maxEntries} \cup {Num(0, 0, 2), Num(2 ^ 16, 0, 0)}

RawArrayMap_get(key, out) ==
    IF ~CheckIndex(key) THEN Thrown("range")
    ELSE IF ~GetBuf(ref.valueSize, out) THEN Thrown("size")
    ELSE IF FDWasClosed THEN Thrown("closed")
    ELSE LET r == Native(fd, KLookup(ref.type, kmap, IntOf(key))) IN Done(r, Some(r.v))

RawArrayMap_set(key, value) ==
    IF ~CheckIndex(key) THEN {Thrown("range")}
    ELSE IF ~CheckBuf(ref.valueSize, value) THEN {Thrown("size")}
    ELSE IF FDWasClosed THEN {Thrown("closed")}
    ELSE {Done(NativeWrite(fd, r), None) :
             r \in KUpdate(ref.type, kmap, IntOf(key), value.val, ref.maxEntries)}

RawQueueMap_peekRemove(out) ==
    IF ~GetBuf(ref.valueSize, out) THEN Thrown("size")
    ELSE IF FDWasClosed THEN Thrown("closed")
    ELSE DoneMaybe(NativeWrite(fd, KLookupAndDelete(ref.type, kmap, 0)))
RawQueueMap_peek(out) ==
    IF ~GetBuf(ref.valueSize, out) THEN Thrown("size")
    ELSE IF FDWasClosed THEN Thrown("closed")
    ELSE DoneMaybe(Native(fd, KLookup(ref.type, kmap, 0)))

RawQueueMap_popKeep(out) == RawQueueMap_peek(out)
RawQueueMap_pop(out) ==
    IF ~GetBuf(ref.valueSize, out) THEN Thrown("size")
    ELSE IF FDWasClosed THEN Thrown("closed")
    ELSE DoneMaybe(NativeWrite(fd, KLookupAndDelete(ref.type, kmap, 0)))

RawQueueMap_push(value) ==
    IF ~CheckBuf(ref.valueSize, value) THEN {Thrown("size")}
    ELSE IF FDWasClosed THEN {Thrown("closed")}
    ELSE {Done(NativeWrite(fd, r), None) : r \in KUpdate(ref.type, kmap, 0, value.val, ref.maxEntries)}

\* the RawArrayMap constructor accepted the handle
IsArrayRef == ref.type = "ARRAY"
\* the RawQueueMap constructor accepted the handle
IsQueueRef == ref.type \in {"QUEUE", "STACK"} /\ ref.keySize = 0

ArrayGet ==
    /\ Alive /\ IsArrayRef
    /\ \E key \in Indexes, out \in OutBufs :
          Apply("RawArrayMap.get", Some(Buf(KeySize, key)), None, out,
                RawArrayMap_get(key, out))

ArraySet ==
    /\ Alive /\ IsArrayRef
    /\ \E key \in Indexes, value \in ValBufs :
          \E res \in RawArrayMap_set(key, value) :
             Apply("RawArrayMap.set", Some(Buf(KeySize, key)), Some(value), None, res)

QueuePeek ==
    /\ Alive /\ IsQueueRef
    /\ \E out \in OutBufs : Apply("RawQueueMap.peek", None, None, out, RawQueueMap_peek(out))

QueuePop ==
    /\ Alive /\ IsQueueRef
    /\ \E out \in OutBufs : Apply("RawQueueMap.pop", None, None, out, RawQueueMap_pop(out))

QueuePush ==
    /\ Alive /\ IsQueueRef
    /\ \E value \in ValBufs :
          \E res \in RawQueueMap_push(value) :
             Apply("RawQueueMap.push", None, Some(value), None, res)

\* RawQueueMap.empty(): this.peek() === undefined
RawQueueMap_empty ==
    LET r == RawQueueMap_peek(None)
    IN IF r.err # "none" THEN r ELSE [r EXCEPT !.ret = Some(r.ret = None)]

QueueEmpty ==
    /\ Alive /\ IsQueueRef
    /\ Apply("RawQueueMap.empty", None, None, None, RawQueueMap_empty)

\* ----------------------------------------------- consumeValues (queue.ts)

\* the consumeValues generator: position, limit, loop counter, pop calls made,
\* values removed from the queue, values yielded, result of the last pop
CvIdle ==
    [pc |-> "idle", limit |-> None, i |-> 0, pops |-> 0, removed |-> 0, yields |-> 0,
     item |-> None, err |-> "none"]

\* no interface constructed by the caller yet, no converted call made
NoConv == [op |-> "none", arg |-> None, raw |-> None, parsed |-> 0, ret |-> None, err |-> "none"]
IfsIdle == [made |-> {}, last |-> NoConv, typed |-> <<>>]

\* the interface classes of the library
IfaceKinds == {"RawMap", "ConvMap", "RawArrayMap", "ConvArrayMap", "RawQueueMap",
               "ConvQueueMap"}

\* the error a constructor throws for the handle r ("none": it returns)
RawMap_new(r) == "none"
RawArrayMap_newAny(r) == "none"
RawArrayMap_new(r) == IF r.type # "ARRAY" THEN "kind" ELSE "none"
RawQueueMap_new(r) ==
    IF r.type # "QUEUE" /\ r.type # "STACK" THEN "kind"
    ELSE IF r.keySize # 0 THEN "assert"
    ELSE "none"
\* the Conv classes construct the raw class first
New(k, r) ==
    CASE k \in {"RawMap", "ConvMap"} -> RawMap_new(r)
      [] k \in {"RawArrayMap", "ConvArrayMap"} -> RawArrayMap_new(r)
      [] k \in {"RawQueueMap", "ConvQueueMap"} -> RawQueueMap_new(r)

\* new RawMap(ref), new ConvMap(ref, ...), new RawArrayMap(ref), ...
Construct ==
    /\ Alive
    /\ \E k \in IfaceKinds :
          /\ ifs' = [ifs EXCEPT !.made = IF New(k, ref) = "none" THEN @ \cup {k} ELSE @,
                                 !.last = NoConv]
          /\ lastOp' = OpRec("new " \o k, None, None, None, New(k, ref), 0, None, FALSE,
                             FALSE)
    /\ UNCHANGED <<handleVars, ref, kfrozen, kmap>>

\* a call through an interface that was constructed
Via(k) == k \in ifs.made
Raw == ifs' = [ifs EXCEPT !.last = NoConv]

\* ------------------------------------------- u32type and the Conv classes

\* the four bytes of a Uint32Array element holding the u32 x, lowest first
Bytes(x) == <<x.lo % 256, x.lo \div 256, x.hi % 256, x.hi \div 256>>

\* u32type.format: `asUint32Array(buf, 1)[0] = x` stores ToUint32(x)
U32Format(x) == Bytes(ToUint32(x))

\* u32type.parse: `asUint32Array(buf, 1)[0]`
U32ParseInt32(b) ==
    Num((b[4] * 256 + b[3]) - (IF b[4] >= 128 THEN 2 ^ 16 ELSE 0), b[2] * 256 + b[1], 0)
U32Parse(b) == Num(b[4] * 256 + b[3], b[2] * 256 + b[1], 0)

\* TypeConversionWrap.parseMaybe: what is returned and how often the codec's
\* parse was called
ParseMaybeAlways(raw) ==
    [ret |-> IF raw = None THEN None ELSE Some(U32Parse(raw[1])), parsed |-> 1]
ParseMaybe(raw) ==
    IF raw = None THEN [ret |-> None, parsed |-> 0]
    ELSE [ret |-> Some(U32Parse(raw[1])), parsed |-> 1]
\* TypeConversionWrap.parse
Parse(raw) == [ret |-> Some(U32Parse(raw[1])), parsed |-> 1]
NoParse == [ret |-> None, parsed |-> 0]

\* keys and values handed to the converted interfaces: 0, 1, 2^32 - 1, and
\* the numbers -1, 2^32 and 1.5 that are no u32
ConvKeys == {NumOf(0), NumOf(1)}
U32Max == Num(2 ^ 16 - 1, 2 ^ 16 - 1, 0)
ConvVals == {NumOf(0), NumOf(1), U32Max, NumOf(-1), Num(2 ^ 16, 0, 0), Num(0, 1, 5)}

\* TypeConversionWrap.format(x): a new buffer of `size` bytes, written by
\* the codec
KeyFormat(x) == Buf(ref.keySize, U32Format(x))
ValueFormat(x) == Buf(ref.valueSize, U32Format(x))

\* the value last written for a key through a converted interface
TypedAt(k) == IF \E i \in DOMAIN ifs.typed : ifs.typed[i].k = k
              THEN Some(ifs.typed[CHOOSE i \in DOMAIN ifs.typed : ifs.typed[i].k = k].v)
              ELSE None
TypedSet(k, v) ==
    IF TypedAt(k) = None THEN Append(ifs.typed, [k |-> k, v |-> v])
    ELSE [i \in DOMAIN ifs.typed |-> IF ifs.typed[i].k = k THEN [k |-> k, v |-> v]
                                      ELSE ifs.typed[i]]

\* a call of a converted interface: the raw call it wraps, then the parse of
\* what the raw call returned, which a throwing raw call never reaches
ConvApply(op, rawop, arg, key, value, res, pm) ==
    /\ Apply(rawop, key, value, None, res)
    /\ ifs' = [ifs EXCEPT
                  !.last = [op |-> op, arg |-> arg, raw |-> res.ret,
                            parsed |-> IF res.err = "none" THEN pm.parsed ELSE 0,
                            ret |-> IF res.err = "none" THEN pm.ret ELSE None,
                            err |-> res.err],
                  !.typed = IF value # None /\ key # None /\ res.err = "none"
                            THEN TypedSet(arg[1], arg[2])
                            ELSE IF key # None /\ res.m # kmap
                            THEN SelectSeq(@, LAMBDA e : e.k # arg[1])
                            ELSE @]

\* RawMap.get(key) on a key buffer holding a formatted u32
GetBytes ==
    /\ Alive
    /\ \E k \in ConvKeys :
          Apply("RawMap.get", Some(KeyFormat(k)), None, None, RawMap_get(KeyFormat(k), None))

\* ConvMap.get(key)
ConvGet ==
    /\ Alive /\ Via("ConvMap")
    /\ \E k \in ConvKeys :
          LET res == RawMap_get(KeyFormat(k), None)
          IN ConvApply("ConvMap.get", "RawMap.get", <<k>>, Some(KeyFormat(k)), None, res,
                       ParseMaybe(res.ret))

\* ConvMap.getDelete(key)
ConvGetDelete ==
    /\ Alive /\ Via("ConvMap")
    /\ \E k \in ConvKeys :
          LET res == RawMap_getDelete(KeyFormat(k), None)
          IN ConvApply("ConvMap.getDelete", "RawMap.getDelete", <<k>>, Some(KeyFormat(k)),
                       None, res, ParseMaybe(res.ret))

\* ConvMap.set(key, value)
ConvSet ==
    /\ Alive /\ Via("ConvMap")
    /\ \E k \in ConvKeys, v \in ConvVals :
          \E res \in RawMap_set(KeyFormat(k), ValueFormat(v)) :
             ConvApply("ConvMap.set", "RawMap.set", <<k, v>>, Some(KeyFormat(k)),
                       Some(ValueFormat(v)), res, NoParse)

\* ConvMap.delete(key)
ConvDelete ==
    /\ Alive /\ Via("ConvMap")
    /\ \E k \in ConvKeys :
          ConvApply("ConvMap.delete", "RawMap.delete", <<k>>, Some(KeyFormat(k)), None,
                    RawMap_delete(KeyFormat(k)), NoParse)

\* ConvArrayMap.get(key): parse of the buffer RawArrayMap.get returned
ConvArrayGet ==
    /\ Alive /\ Via("ConvArrayMap")
    /\ \E k \in ConvKeys :
          LET res == RawArrayMap_get(k, None)
          IN ConvApply("ConvArrayMap.get", "RawArrayMap.get", <<k>>, Some(KeyFormat(k)),
                       None, res, IF res.ret = None THEN NoParse ELSE Parse(res.ret))

\* ConvArrayMap.set(key, value)
ConvArraySet ==
    /\ Alive /\ Via("ConvArrayMap")
    /\ \E k \in ConvKeys, v \in ConvVals :
          \E res \in RawArrayMap_set(k, ValueFormat(v)) :
             ConvApply("ConvArrayMap.set", "RawArrayMap.set", <<k, v>>, Some(KeyFormat(k)),
                       Some(ValueFormat(v)), res, NoParse)

\* ConvQueueMap.peek()
ConvPeek ==
    /\ Alive /\ Via("ConvQueueMap")
    /\ LET res == RawQueueMap_peek(None)
       IN ConvApply("ConvQueueMap.peek", "RawQueueMap.peek", <<>>, None, None, res,
                    ParseMaybe(res.ret))

\* ConvQueueMap.pop()
ConvPop ==
    /\ Alive /\ Via("ConvQueueMap")
    /\ LET res == RawQueueMap_pop(None)
       IN ConvApply("ConvQueueMap.pop", "RawQueueMap.pop", <<>>, None, None, res,
                    ParseMaybe(res.ret))

\* ConvQueueMap.push(value)
ConvPush ==
    /\ Alive /\ Via("ConvQueueMap")
    /\ \E v \in ConvVals :
          \E res \in RawQueueMap_push(ValueFormat(v)) :
             ConvApply("ConvQueueMap.push", "RawQueueMap.push", <<v>>, None,
                       Some(ValueFormat(v)), res, NoParse)

\* values pushed and popped through the handle, in call order; mixed: a push
\* followed a pop; others: pushes made by another actor
QuIdle == [pushed |-> <<>>, popped |-> <<>>, mixed |-> FALSE, others |-> 0, cv |-> CvIdle]

\* one pull of the generator, from the loop condition to the next yield:
\* i < limit is tested before pop() is called
CvTurnPopFirst(c) ==
    LET r == RawQueueMap_pop(None) IN
    IF r.err # "none"
    THEN [cv |-> [c EXCEPT !.pc = "thrown", !.pops = @ + 1, !.err = r.err], m |-> r.m]
    ELSE IF r.ret = None \/ (c.limit # None /\ ~(c.i < c.limit[1]))
    THEN [cv |-> [c EXCEPT !.pc = "done", !.pops = @ + 1, !.item = None], m |-> r.m]
    ELSE [cv |-> [c EXCEPT !.pc = "yielded", !.pops = @ + 1, !.yields = @ + 1,
                           !.item = r.ret],
          m |-> r.m]
CvTurn(c) ==
    IF c.limit # None /\ ~(c.i < c.limit[1])
    THEN [cv |-> [c EXCEPT !.pc = "done"], m |-> kmap]
    ELSE LET r == RawQueueMap_pop(None) IN
         IF r.err # "none"
         THEN [cv |-> [c EXCEPT !.pc = "thrown", !.pops = @ + 1, !.err = r.err], m |-> r.m]
         ELSE IF r.ret = None
         THEN [cv |-> [c EXCEPT !.pc = "done", !.pops = @ + 1, !.item = None], m |-> r.m]
         ELSE [cv |-> [c EXCEPT !.pc = "yielded", !.pops = @ + 1, !.yields = @ + 1,
                                !.item = r.ret],
               m |-> r.m]

\* consumeValues(limit) is called: nothing runs before the first pull
CvCall ==
    /\ Alive /\ IsQueueRef
    /\ qu.cv.pc \in {"idle", "done", "thrown"}
    /\ \E limit \in {None} \cup {Some(n) : n \in 0 .. ref.maxEntries} :
          qu' = [qu EXCEPT !.cv = [CvIdle EXCEPT !.pc = "start", !.limit = limit]]
    /\ lastOp' = NoOp
    /\ UNCHANGED <<handleVars, ref, kfrozen, kmap>>

\* the consumer pulls: after a yield the for loop runs i++ first
CvNext ==
    /\ Alive /\ IsQueueRef
    /\ qu.cv.pc \in {"start", "yielded"}
    /\ LET c == [qu.cv EXCEPT !.i = IF qu.cv.pc = "yielded" /\ qu.cv.limit # None
                                     THEN @ + 1 ELSE @]
           t == CvTurn(c)
       IN /\ kmap' = t.m
          /\ qu' = [qu EXCEPT
                       !.cv = [t.cv EXCEPT !.removed = @ + (Len(kmap) - Len(t.m))],
                       !.popped = IF Len(t.m) < Len(kmap) /\ t.cv.item # None
                                  THEN Append(@, t.cv.item[1]) ELSE @]
    /\ UNCHANGED <<handleVars, ref, kfrozen, lastOp>>

\* a call made through the handle while no generator is suspended; its push
\* or pop is entered in the record of the queue
CvQuiet == qu.cv.pc \notin {"start", "yielded"}
QuLog ==
    LET o == lastOp'
        pushed == o.op = "RawQueueMap.push" /\ o.err = "none"
        popped == o.op = "RawQueueMap.pop" /\ o.err = "none" /\ o.ret # None
    IN qu' = [qu EXCEPT !.pushed = IF pushed THEN Append(@, o.value[1].val) ELSE @,
                        !.popped = IF popped THEN Append(@, o.ret[1]) ELSE @,
                        !.mixed = @ \/ (pushed /\ qu.popped # <<>>),
                        !.cv = CvIdle]

\* another actor (a BPF program, another process) pushes a value
ExternalPush ==
    /\ Len(qu.pushed) + qu.others < MaxPushes
    /\ Len(kmap) < ref.maxEntries
    /\ ~kfrozen
    /\ \E v \in Vals : kmap' = Append(kmap, Entry(0, v))
    /\ qu' = [qu EXCEPT !.others = @ + 1]
    /\ UNCHANGED <<handleVars, ref, kfrozen, lastOp>>

\* ------------------------------------------------------- batch operations

\* statuses a kernel batch call may report
Statuses == {0, -ENOENT, -EFAULT, -EINVAL}

\* common.fixCount: count is Some(n), the result Some(n) or None (undefined)
FixCountZero(count, batchSize, status) ==
    IF status < 0 /\ count = Some(batchSize) THEN Some(0) ELSE count
FixCount(count, batchSize, status) ==
    IF status < 0 /\ count = Some(batchSize)
    THEN (IF status = -EFAULT THEN None ELSE Some(0))
    ELSE count

\* common.checkAllProcessed passes
CheckAllProcessedAlways(count, batchSize) == TRUE
CheckAllProcessed(count, batchSize) == count = Some(batchSize)

\* count > 0 in JavaScript: false for undefined
Positive(count) == count # None /\ count[1] > 0

BCall(op, status, raw, size, used, read) ==
    [op |-> op, status |-> status, raw |-> raw, size |-> size, used |-> used, read |-> read]
NoBCall == BCall("none", 0, 0, 0, None, FALSE)

\* arg: the entries or values passed (arrays), keys: the keys a lookup batch
\* call wrote, ret: the values returned
BOp(op, n, err, errno, count, kcall) ==
    [op |-> op, n |-> n, err |-> err, errno |-> errno, count |-> count, kcall |-> kcall,
     arg |-> <<>>, keys |-> <<>>, ret |-> None]
NoBOp == BOp("none", 0, "none", 0, None, FALSE)

\* getBatch: the count used after a lookup batch call
GetBatchCountRaw(status, raw, batchSize) == Some(raw)
GetBatchCountAlwaysFix(status, raw, batchSize) == FixCount(Some(raw), batchSize, status)
GetBatchCount(status, raw, batchSize) ==
    IF status # -ENOENT THEN FixCount(Some(raw), batchSize, status) ELSE Some(raw)

\* getBatch: [ batchIn, batchOut ] = [ batchOut, batchIn ]
GbSwapSame(in, out) == [in |-> out, out |-> out]
GbSwap(in, out) == [in |-> out, out |-> in]

\* getBatch after the yield: return on ENOENT, checkStatus, loop again
GbAfterYieldOnce(status) ==
    IF status = -ENOENT THEN "done" ELSE IF status < 0 THEN "thrown" ELSE "done"
GbAfterYield(status) ==
    IF status = -ENOENT THEN "done" ELSE IF status < 0 THEN "thrown" ELSE "loop"
\* getBatch after a call: yield a non-empty batch first
GbAfterCallThrowFirst(status, count) ==
    IF status < 0 /\ status # -ENOENT THEN "thrown"
    ELSE IF Positive(count) THEN "yielded" ELSE GbAfterYield(status)
GbAfterCall(status, count) ==
    IF Positive(count) THEN "yielded" ELSE GbAfterYield(status)

\* env "any": a kernel whose replies are followed by status and count only;
\* env "map": a kernel that serves the entries of kmap, which nobody changes.
\* at: the map position held by each cursor buffer; buf: keysOut / valuesOut;
\* seen: entries yielded so far; batch: the batch last yielded; first: the
\* first batch yielded, as the consumer holds it
GbIdle ==
    [pc |-> "idle", iface |-> "RawMap", batchSize |-> 0, batchIn |-> None, batchOut |-> None,
     nbufs |-> 0, cursor |-> <<0, 0>>, calls |-> <<>>, status |-> 0, count |-> None,
     yielded |-> FALSE, err |-> "none",
     env |-> "any", at |-> <<0, 0>>, buf |-> <<>>, seen |-> 0, batch |-> <<>>, first |-> None]

\* BPF_MAP_LOOKUP_BATCH from position p of a map nobody changes: whole
\* buckets are copied while they fit in bs entries; a bucket larger than bs
\* is refused with ENOSPC; the end of the map is reported with ENOENT
KLookupBatch(m, p, bs) ==
    LET rem == Len(m) - p
        most == IF bs < rem THEN bs ELSE rem
        served == IF rem = 0
                  THEN {[status |-> -ENOENT, raw |-> 0, at |-> p]}
                  ELSE {r \in {[status |-> st, raw |-> n, at |-> p + n] :
                                  n \in 1 .. most, st \in {0, -ENOENT}} :
                           r.status = -ENOENT => r.at = Len(m)}
        refused == IF rem > bs THEN {[status |-> -ENOSPC, raw |-> 0, at |-> p]} ELSE {}
    IN served \cup refused

\* getBatch: copySlice(i, buf, size) = Buffer.from(buf.slice(offset, offset + size))
CopySliceShared(b, i) == [alias |-> TRUE, at |-> i, val |-> b[i]]
CopySlice(b, i) == [alias |-> FALSE, at |-> i, val |-> b[i]]

\* getBatch(batchSize) is called and pulled for the first time
GbStart ==
    /\ Alive
    /\ gb.pc \in {"idle", "done", "thrown"}
    /\ \E iface \in {"RawMap", "RawArrayMap"}, batchSize \in 0 .. MaxBatch :
          /\ iface = "RawArrayMap" => IsArrayRef
          /\ gb' = IF ~CheckU32(NumOf(batchSize)) \/ batchSize = 0
                   THEN [GbIdle EXCEPT !.pc = "thrown", !.iface = iface, !.err = "batchSize",
                                       !.env = gb.env]
                   ELSE [GbIdle EXCEPT !.pc = "loop", !.iface = iface, !.batchSize = batchSize,
                                       !.env = gb.env,
                                       !.buf = IF gb.env = "map"
                                               THEN [i \in 1 .. batchSize |-> Entry(0, 0)]
                                               ELSE <<>>]
    /\ bcall' = NoBCall
    /\ bop' = NoBOp
    /\ UNCHANGED <<handleVars, ref, kfrozen, kmap, lastOp>>

\* the position the kernel starts from: the content of the input cursor
GbInPos == IF gb.batchIn = None THEN 0 ELSE gb.at[gb.batchIn[1]]

\* the replies of the kernel to the next lookup batch call
GbReplies ==
    IF gb.env = "map" THEN KLookupBatch(kmap, GbInPos, gb.batchSize)
    ELSE {[status |-> status, raw |-> raw, at |-> 0] :
             status \in Statuses, raw \in 0 .. gb.batchSize}

\* one turn of the while loop up to the yield
GbCall ==
    /\ Alive
    /\ gb.pc = "loop"
    /\ gb.env = "map" \/ Len(gb.calls) < MaxCalls
    /\ IF FDWasClosed
       THEN /\ gb' = [gb EXCEPT !.pc = "thrown", !.err = "closed"]
            /\ UNCHANGED bcall
       ELSE \E reply \in GbReplies, wrote, seq \in BOOLEAN :
               LET status == reply.status
                   raw == reply.raw
                   out == IF gb.batchOut = None THEN gb.nbufs + 1 ELSE gb.batchOut[1]
                   tok == Len(gb.calls) + 1
                   count == GetBatchCount(status, raw, gb.batchSize)
                   sw == GbSwap(gb.batchIn, Some(out))
                   nonseq == gb.iface = "RawArrayMap" /\ Positive(count) /\ ~seq
                   call == [in |-> gb.batchIn, out |-> out,
                            inTok |-> IF gb.batchIn = None THEN None
                                      ELSE Some(gb.cursor[gb.batchIn[1]]),
                            outTok |-> tok]
                   npc == IF nonseq THEN "thrown" ELSE GbAfterCall(status, count)
                   buf == [i \in DOMAIN gb.buf |->
                              IF i <= raw THEN kmap[GbInPos + i] ELSE gb.buf[i]]
                   entries == IF npc = "yielded" /\ gb.env = "map"
                              THEN [i \in 1 .. count[1] |-> CopySlice(buf, i)]
                              ELSE <<>>
               IN /\ (status = 0 \/ status = -ENOENT \/ gb.env = "map") => wrote
                  /\ gb.env = "map" => seq
                  /\ (gb.iface = "RawMap" \/ ~Positive(count)) => seq
                  /\ gb' = [gb EXCEPT
                              !.nbufs = IF gb.batchOut = None THEN gb.nbufs + 1 ELSE gb.nbufs,
                              !.cursor = IF wrote THEN [gb.cursor EXCEPT ![out] = tok]
                                         ELSE gb.cursor,
                              !.calls = Append(gb.calls, call),
                              !.batchIn = sw.in,
                              !.batchOut = sw.out,
                              !.status = status,
                              !.count = count,
                              !.yielded = (npc = "yielded"),
                              !.at = IF wrote THEN [gb.at EXCEPT ![out] = reply.at] ELSE gb.at,
                              !.buf = buf,
                              !.seen = gb.seen + Len(entries),
                              !.batch = entries,
                              !.first = IF gb.first = None /\ entries # <<>>
                                        THEN Some(entries) ELSE gb.first,
                              !.err = IF nonseq THEN "nonseq"
                                      ELSE IF npc = "thrown" THEN "bpf" ELSE "none",
                              !.pc = npc]
                  /\ bcall' = BCall(gb.iface \o ".getBatch", status, raw, gb.batchSize,
                                    count, TRUE)
    /\ UNCHANGED <<handleVars, ref, kfrozen, kmap, lastOp, bop>>

\* the consumer pulls again after a yield
GbResume ==
    /\ Alive
    /\ gb.pc = "yielded"
    /\ gb' = [gb EXCEPT !.pc = GbAfterYield(gb.status),
                         !.err = IF GbAfterYield(gb.status) = "thrown" THEN "bpf" ELSE "none"]
    /\ UNCHANGED <<handleVars, ref, kfrozen, kmap, lastOp, bcall, bop>>

\* calls are synchronous: one batch operation is followed at a time, and the
\* records of the previous one are dropped when the next one starts
NoIteration == gb.pc \notin {"loop", "yielded"}

\* the tail shared by setBatch, deleteBatch and setAll:
\* fixCount, checkStatus(op, status, count), checkAllProcessed
UpdateResult(op, n, status, count) ==
    IF status < 0 THEN BOp(op, n, "bpf", -status, count, TRUE)
    ELSE IF ~CheckAllProcessed(count, n) THEN BOp(op, n, "assert", 0, count, TRUE)
    ELSE BOp(op, n, "none", 0, count, TRUE)

UpdateTail(op, n, status, raw) ==
    LET count == FixCount(Some(raw), n, status) IN
    /\ bcall' = BCall(op, status, raw, n, count, TRUE)
    /\ bop' = UpdateResult(op, n, status, count)

BatchThrow(op, n, err) ==
    /\ bop' = BOp(op, n, err, 0, None, FALSE)
    /\ bcall' = NoBCall

\* RawMap.setBatch(entries)
SetBatch ==
    /\ Alive /\ NoIteration
    /\ \E n \in 0 .. MaxBatch, keysOk, valuesOk \in BOOLEAN :
          /\ n = 0 => (keysOk /\ valuesOk)
          /\ IF ~keysOk \/ ~valuesOk THEN BatchThrow("RawMap.setBatch", n, "size")
             ELSE IF FDWasClosed THEN BatchThrow("RawMap.setBatch", n, "closed")
             ELSE \E status \in Statuses, raw \in 0 .. n :
                     UpdateTail("RawMap.setBatch", n, status, raw)
    /\ gb' = GbIdle
    /\ lastOp' = NoOp
    /\ UNCHANGED <<handleVars, ref, kfrozen, kmap>>

\* BPF_MAP_DELETE_BATCH of the kernel: the keys are deleted in the order of
\* the list, and the first key that is not in the map ends the call with
\* ENOENT and the number of keys deleted before it
RECURSIVE KDeleteBatch(_, _)
KDeleteBatch(m, keys) ==
    IF keys = <<>> THEN [status |-> 0, raw |-> 0, m |-> m]
    ELSE IF ~HasKey(m, keys[1].val) THEN [status |-> -ENOENT, raw |-> 0, m |-> m]
    ELSE LET r == KDeleteBatch(RemoveAt(m, IndexOf(m, keys[1].val)), Tail(keys))
         IN [status |-> r.status, raw |-> r.raw + 1, m |-> r.m]

\* the key lists handed to deleteBatch: lists of different keys when the
\* kernel map is followed, otherwise only their number and whether their sizes
\* are right
DeleteKeyBufs == {Buf(KeySize, x) : x \in 0 .. MaxBatch}
DeleteKeys ==
    IF gb.env = "map"
    THEN {ks \in UNION {[1 .. n -> DeleteKeyBufs] : n \in 0 .. (MaxBatch + 1)} :
                 \A i, j \in DOMAIN ks : ks[i] = ks[j] => i = j}
         \cup {<<Buf(0, 0)>>}
    ELSE {[i \in 1 .. n |-> IF i = n /\ ~ok THEN Buf(0, 0) ELSE Buf(KeySize, 0)] :
             n \in 0 .. MaxBatch, ok \in BOOLEAN}

\* what the kernel answers to a deleteBatch of keys
DeleteReplies(keys) ==
    IF gb.env = "map" THEN {KDeleteBatch(kmap, keys)}
    ELSE {[status |-> status, raw |-> raw, m |-> kmap] :
             status \in Statuses, raw \in 0 .. Len(keys)}

\* checkStatus letting ENOENT pass as a success
UpdateResultSkipMissing(op, n, status, count) ==
    IF status < 0 /\ status # -ENOENT THEN BOp(op, n, "bpf", -status, count, TRUE)
    ELSE BOp(op, n, "none", 0, count, TRUE)

\* fixCount, checkStatus, checkAllProcessed of deleteBatch
DeleteResult(op, n, status, count) == UpdateResult(op, n, status, count)

\* RawMap.deleteBatch(keys)
DeleteBatch ==
    /\ Alive /\ NoIteration
    /\ \E keys \in DeleteKeys :
          LET n == Len(keys)
              op == "RawMap.deleteBatch"
          IN IF \E i \in 1 .. n : ~CheckBuf(ref.keySize, keys[i])
             THEN /\ bop' = [BOp(op, n, "size", 0, None, FALSE) EXCEPT !.arg = keys]
                  /\ bcall' = NoBCall
                  /\ UNCHANGED kmap
             ELSE IF FDWasClosed
             THEN /\ bop' = [BOp(op, n, "closed", 0, None, FALSE) EXCEPT !.arg = keys]
                  /\ bcall' = NoBCall
                  /\ UNCHANGED kmap
             ELSE \E reply \in DeleteReplies(keys) :
                     LET count == FixCount(Some(reply.raw), n, reply.status) IN
                     /\ bcall' = BCall(op, reply.status, reply.raw, n, count, TRUE)
                     /\ bop' = [DeleteResult(op, n, reply.status, count) EXCEPT !.arg = keys]
                     /\ kmap' = reply.m
    /\ gb' = [GbIdle EXCEPT !.env = gb.env]
    /\ lastOp' = NoOp
    /\ UNCHANGED <<handleVars, ref, kfrozen>>

\* BPF_MAP_UPDATE_BATCH on an array: the entries the kernel counts are
\* written, in order
RECURSIVE KUpdateBatch(_, _)
KUpdateBatch(m, es) ==
    IF es = <<>> THEN m
    ELSE KUpdateBatch([m EXCEPT ![IntOf(es[1].k) + 1].v = es[1].v], Tail(es))

\* the tail of setBatch and setAll of RawArrayMap
ArrayUpdateTail(op, arg, es) ==
    \E status \in Statuses, raw \in 0 .. Len(es) :
       LET count == FixCount(Some(raw), Len(es), status) IN
       /\ bcall' = BCall(op, status, raw, Len(es), count, TRUE)
       /\ bop' = [UpdateResult(op, Len(es), status, count) EXCEPT !.arg = arg]
       /\ kmap' = KUpdateBatch(kmap, SubSeq(es, 1, raw))

ArrayThrow(op, arg, err) ==
    /\ bop' = [BOp(op, Len(arg), err, 0, None, FALSE) EXCEPT !.arg = arg]
    /\ bcall' = NoBCall
    /\ UNCHANGED kmap

\* values written by bulk calls
ArrayVals == {0, 1}

\* entries of a setBatch call: indexes running over the array, the last of
\* them replaced by an arbitrary number
EntryAt(i, n, idx) == IF i = n THEN idx ELSE NumOf((i - 1) % ref.maxEntries)
\* and a single entry with a value buffer of any length
BatchEntries(n) ==
    IF n = 0 THEN {<<>>}
    ELSE {[i \in 1 .. n |-> [k |-> EntryAt(i, n, idx), v |-> Buf(ValueSize, v)]] :
             idx \in Indexes, v \in ArrayVals}
         \cup (IF n = 1 THEN {<<[k |-> NumOf(0), v |-> Buf(l, 0)]>> : l \in BufLens}
               ELSE {})

\* Buffer.concat(entries.map(x => x[1])): the length of valuesBuf
RECURSIVE ConcatLen(_)
ConcatLen(bufs) == IF bufs = <<>> THEN 0 ELSE bufs[1].len + ConcatLen(Tail(bufs))

\* what BPF_MAP_UPDATE_BATCH reads for `count` entries of valueSize bytes out
\* of valuesBuf: the values given when every buffer has valueSize bytes; from
\* the first buffer of another length on, bytes of the next buffers or of the
\* memory behind valuesBuf, that is any value
KernelEntries(entries) ==
    LET n == Len(entries)
        sized(i) == CheckBuf(ref.valueSize, entries[i].v)
    IN {[i \in 1 .. n |-> [k |-> entries[i].k,
                           v |-> IF \A j \in 1 .. i : sized(j)
                                 THEN entries[i].v.val ELSE w]] :
           w \in ArrayVals}

\* RawArrayMap.setBatch(entries): indexes are checked, value buffers are not
ArraySetBatch ==
    /\ Alive /\ IsArrayRef /\ NoIteration
    /\ \E n \in 0 .. MaxBatch : \E entries \in BatchEntries(n) :
          IF \E i \in 1 .. n : ~CheckIndex(entries[i].k)
          THEN ArrayThrow("RawArrayMap.setBatch", entries, "range")
          ELSE IF FDWasClosed
          THEN ArrayThrow("RawArrayMap.setBatch", entries, "closed")
          ELSE \E es \in KernelEntries(entries) :
                  ArrayUpdateTail("RawArrayMap.setBatch", entries, es)
    /\ gb' = GbIdle
    /\ lastOp' = NoOp
    /\ UNCHANGED <<handleVars, ref, kfrozen>>

\* values of a setAll call: well-sized buffers, the last of them replaced by
\* an arbitrary buffer
ArrayBufs == {Buf(ValueSize, x) : x \in ArrayVals} \cup {Buf(l, 0) : l \in BufLens}
BatchValues(n) ==
    IF n = 0 THEN {<<>>}
    ELSE {[i \in 1 .. n |-> IF i = n THEN b ELSE Buf(ValueSize, v)] :
             b \in ArrayBufs, v \in ArrayVals}

\* RawArrayMap.setAll: values.length !== this.length
LengthOk(n) == n = ref.maxEntries

\* RawArrayMap.setAll(values)
SetAll ==
    /\ Alive /\ IsArrayRef /\ NoIteration
    /\ \E n \in 0 .. (ref.maxEntries + 1) : \E values \in BatchValues(n) :
          IF ~LengthOk(n)
          THEN ArrayThrow("RawArrayMap.setAll", values, "length")
          ELSE IF \E i \in 1 .. n : ~CheckBuf(ref.valueSize, values[i])
          THEN ArrayThrow("RawArrayMap.setAll", values, "size")
          ELSE IF FDWasClosed
          THEN ArrayThrow("RawArrayMap.setAll", values, "closed")
          ELSE ArrayUpdateTail("RawArrayMap.setAll", values,
                               [i \in 1 .. ref.maxEntries |->
                                   [k |-> NumOf(i - 1),
                                    v |-> IF i <= n THEN values[i].val ELSE 0]])
    /\ gb' = GbIdle
    /\ lastOp' = NoOp
    /\ UNCHANGED <<handleVars, ref, kfrozen>>

\* RawArrayMap._allIndexes
AllIndexes(n) == [i \in 1 .. n |-> i - 1]

\* BPF_MAP_LOOKUP_BATCH: orders in which a kernel may report the keys
KeyOrders(n) == {AllIndexes(n), [i \in 1 .. n |-> n - i], [i \in 1 .. n |-> 0]}

\* RawArrayMap.getAll: keysOut.equals(this._allIndexes)
KeysEqualAlways(keysOut, n) == TRUE
KeysEqual(keysOut, n) == keysOut = AllIndexes(n)

\* RawArrayMap.getAll(): the count is compared as reported; keysOut and
\* valuesOut are zero-filled beyond the entries the kernel wrote
GetAll ==
    /\ Alive /\ IsArrayRef /\ NoIteration
    /\ LET n == ref.maxEntries IN
       IF FDWasClosed THEN BatchThrow("RawArrayMap.getAll", n, "closed")
       ELSE \E status \in Statuses, raw \in 0 .. n, order \in KeyOrders(n) :
               LET keysOut == [i \in 1 .. n |-> IF i <= raw THEN order[i] ELSE 0]
                   valuesOut == [i \in 1 .. n |->
                                    IF i <= raw THEN kmap[order[i] + 1].v ELSE 0]
                   res == IF status # -ENOENT /\ status < 0
                          THEN BOp("RawArrayMap.getAll", n, "bpf", -status, None, TRUE)
                          ELSE IF raw # n
                          THEN BOp("RawArrayMap.getAll", n, "count", 0, Some(raw), TRUE)
                          ELSE IF ~KeysEqual(keysOut, n)
                          THEN BOp("RawArrayMap.getAll", n, "nonseq", 0, Some(raw), TRUE)
                          ELSE [BOp("RawArrayMap.getAll", n, "none", 0, Some(raw), TRUE)
                                   EXCEPT !.ret = Some(SubSeq(valuesOut, 1, raw))]
               IN /\ bcall' = BCall("RawArrayMap.getAll", status, raw, n, Some(raw),
                                    status >= 0 \/ status = -ENOENT)
                  /\ bop' = [res EXCEPT !.keys = keysOut]
    /\ gb' = GbIdle
    /\ lastOp' = NoOp
    /\ UNCHANGED <<handleVars, ref, kfrozen, kmap>>

\* ------------------------------------------- keys / entries / values

IterKeys == 0 .. MaxIterKey
IterVals == {0, 1}
IterKeyBuf(k) == Buf(KeySize, k)
KeysOf(m) == [i \in DOMAIN m |-> m[i].k]
Range(q) == {q[i] : i \in DOMAIN q}

\* keys(): `key = next` when the generator is resumed
KeysNextLate(key, next) == RawMap_getNextKey(Some(IterKeyBuf(key)), None).ret
KeysNext(key, next) == next

\* entries(): `if (v) yield [k, v]`
EntriesYieldAlways(v) == TRUE
EntriesYield(v) == v # None

\* what a generator hands to its consumer
Item(mode, key, v) ==
    [k |-> IF mode = "values" THEN None ELSE Some(key),
     v |-> IF mode = "keys" THEN None ELSE v]

ItIdle ==
    [pc |-> "idle", mode |-> "keys", key |-> None, next |-> None, nextOf |-> None,
     out |-> <<>>, init |-> <<>>, disturbed |-> FALSE, item |-> None, held |-> None,
     clear |-> FALSE, track |-> FALSE, start |-> None, map |-> <<>>, err |-> "none"]

\* the keys the kernel walk visits from `start` when nothing changes
Snapshot(m, start) ==
    IF start = None \/ ~HasKey(m, start[1]) THEN KeysOf(m)
    ELSE SubSeq(KeysOf(m), IndexOf(m, start[1]) + 1, Len(m))

\* `key = next; while (key !== undefined)`
KeysLoop(key) == IF key = None THEN "done" ELSE "prefetch"

Iterating == it.pc \in {"prefetch", "lookup", "yielded"}

\* `let key = this.getNextKey(start)` of keys(start)
KeysFirstNoStart(start) == RawMap_getNextKey(None, None)
KeysFirst(start) ==
    RawMap_getNextKey(IF start = None THEN None ELSE Some(IterKeyBuf(start[1])), None)

\* the generator after its first pull; a tracked generator also records the
\* start key it was given and the map it started on
Started(mode, start, clear) ==
    LET res == KeysFirst(start)
    IN [ItIdle EXCEPT
           !.mode = mode,
           !.clear = clear,
           !.track = it.track,
           !.start = IF it.track THEN start ELSE None,
           !.map = IF it.track THEN kmap ELSE <<>>,
           !.init = Snapshot(kmap, start),
           !.key = res.ret,
           !.err = res.err,
           !.pc = IF res.err # "none" THEN "thrown" ELSE KeysLoop(res.ret)]

\* one generator is followed at a time; where the calls are tracked, the
\* next one may start once the last has ended
MayStart == it.pc = "idle" \/ (it.track /\ ~Iterating)

\* first pull of keys(start), entries(start) or values(start)
KeysStart ==
    /\ MayStart
    /\ \E mode \in {"keys", "entries", "values"},
          start \in {None} \cup {Some(k) : k \in IterKeys} :
          it' = Started(mode, start, FALSE)
    /\ UNCHANGED <<handleVars, ref, kfrozen, kmap, lastOp, gb, bcall, bop>>

\* clear(start): the first pull of its `for (const k of this.keys(start))`
ClearStart ==
    /\ MayStart
    /\ \E start \in {None} \cup {Some(k) : k \in IterKeys} :
          it' = Started("keys", start, TRUE)
    /\ UNCHANGED <<handleVars, ref, kfrozen, kmap, lastOp, gb, bcall, bop>>

\* the body of clear's loop
ClearBodyNoDelete(k) == RawMap_get(IterKeyBuf(k), None)
ClearBody(k) == RawMap_delete(IterKeyBuf(k))

\* clear(): `this.delete(k)` on the key just yielded, then the generator is
\* pulled again
ClearDelete ==
    /\ it.pc = "yielded" /\ it.clear
    /\ LET res == ClearBody(it.key[1])
           nkey == KeysNext(it.key[1], it.next)
       IN /\ kmap' = res.m
          /\ it' = IF res.err # "none" THEN [it EXCEPT !.pc = "thrown", !.err = res.err]
                    ELSE [it EXCEPT !.key = nkey, !.pc = KeysLoop(nkey)]
    /\ UNCHANGED <<handleVars, ref, kfrozen, lastOp, gb, bcall, bop>>

\* `const next = this.getNextKey(key); yield key`
KeysPrefetch ==
    /\ it.pc = "prefetch"
    /\ LET res == RawMap_getNextKey(Some(IterKeyBuf(it.key[1])), None)
       IN it' = IF res.err # "none" THEN [it EXCEPT !.pc = "thrown", !.err = res.err]
                ELSE [it EXCEPT
                         !.next = res.ret,
                         !.nextOf = it.key,
                         !.out = IF it.mode = "keys" THEN Append(it.out, it.key[1])
                                 ELSE it.out,
                         !.item = IF it.mode = "keys"
                                  THEN Some(Item("keys", it.key[1], None)) ELSE it.item,
                         !.pc = IF it.mode = "keys" THEN "yielded" ELSE "lookup"]
    /\ UNCHANGED <<handleVars, ref, kfrozen, kmap, lastOp, gb, bcall, bop>>

\* entries(): `const v = this.get(k); if (v) yield [k, v]`, else on to the
\* next key of keys()
EntriesLookup ==
    /\ it.pc = "lookup"
    /\ LET res == RawMap_get(IterKeyBuf(it.key[1]), None)
           now == [k |-> it.key[1],
                   present |-> HasKey(kmap, it.key[1]),
                   v |-> IF HasKey(kmap, it.key[1])
                         THEN kmap[IndexOf(kmap, it.key[1])].v ELSE 0]
           nkey == KeysNext(it.key[1], it.next)
       IN it' = IF res.err # "none" THEN [it EXCEPT !.pc = "thrown", !.err = res.err]
                ELSE IF EntriesYield(res.ret)
                THEN [it EXCEPT
                         !.item = Some(Item(it.mode, it.key[1], res.ret)),
                         !.held = Some(now),
                         !.pc = "yielded"]
                ELSE [it EXCEPT
                         !.item = None,
                         !.held = Some(now),
                         !.key = nkey,
                         !.pc = KeysLoop(nkey)]
    /\ UNCHANGED <<handleVars, ref, kfrozen, kmap, lastOp, gb, bcall, bop>>

\* the consumer pulls again: `key = next` and the loop test
KeysResume ==
    /\ it.pc = "yielded" /\ ~it.clear
    /\ LET nkey == KeysNext(it.key[1], it.next)
       IN it' = [it EXCEPT !.key = nkey, !.pc = KeysLoop(nkey)]
    /\ UNCHANGED <<handleVars, ref, kfrozen, kmap, lastOp, gb, bcall, bop>>

YieldedKeys == Range(it.out)

\* RawMap.delete while a generator is live; the iteration is disturbed unless
\* the consumer removes a key it was already handed, between two pulls
IterDelete ==
    /\ Iterating
    /\ \E k \in IterKeys :
          LET res == RawMap_delete(IterKeyBuf(k))
          IN /\ kmap' = res.m
             /\ it' = [it EXCEPT !.disturbed =
                          @ \/ (res.m # kmap /\ ~(it.pc = "yielded" /\ k \in YieldedKeys))]
    /\ UNCHANGED <<handleVars, ref, kfrozen, lastOp, gb, bcall, bop>>

\* RawMap.set of a key the map holds while a generator is live
IterSet ==
    /\ Iterating
    /\ \E k \in Range(KeysOf(kmap)), v \in IterVals :
          \E res \in RawMap_set(IterKeyBuf(k), Buf(ValueSize, v)) :
             /\ kmap' = res.m
             /\ it' = [it EXCEPT !.disturbed = @ \/ res.m # kmap]
    /\ UNCHANGED <<handleVars, ref, kfrozen, lastOp, gb, bcall, bop>>

\* ------------------------------------------- has / whole iteration

\* RawMap.has: `this.get(key) !== undefined`
RawMap_hasAlways(key) ==
    LET res == RawMap_get(key, None)
    IN [res EXCEPT !.ret = IF res.err = "none" THEN Some(TRUE) ELSE None]
RawMap_has(key) ==
    LET res == RawMap_get(key, None)
    IN [res EXCEPT !.ret = IF res.err = "none" THEN Some(res.ret # None) ELSE None]

Has ==
    /\ Alive
    /\ \E key \in KeyBufs : Apply("RawMap.has", Some(key), None, None, RawMap_has(key))

\* `[...map.entries()]` with nothing else touching the map: the loop of
\* keys() around the lookup of entries(), from the key `key` on
RECURSIVE EntriesFrom(_)
EntriesFrom(key) ==
    IF key = None THEN <<>>
    ELSE LET next == RawMap_getNextKey(Some(IterKeyBuf(key[1])), None).ret
             v == RawMap_get(IterKeyBuf(key[1]), None).ret
         IN (IF EntriesYield(v) THEN <<Entry(key[1], v[1])>> ELSE <<>>)
               \o EntriesFrom(KeysNext(key[1], next))

RawMap_entries ==
    LET first == RawMap_getNextKey(None, None)
    IN IF first.err # "none" THEN first
       ELSE [first EXCEPT !.ret = Some(EntriesFrom(first.ret))]

EntriesAll ==
    /\ Alive
    /\ Apply("RawMap.entries", None, None, None, RawMap_entries)

\* ------------------------------------- createMap / createMapRef (common.ts)

\* descriptor numbers of the process; open[n] is the kernel map the
\* descriptor n refers to, 0 when n is not open
FdNums == 3 .. MaxFdNum
MapIds == 1 .. (MaxFdNum - 2)
FreeFds(p) == {n \in FdNums : p.open[n] = 0}
FreshIds(p) == {i \in MapIds : \A n \in FdNums : p.open[n] # i}

\* a system call made by the library: name, descriptor argument, result
Sys(c, n, st) == [c |-> c, fd |-> n, st |-> st]
Called(p, c, n, st) == [p EXCEPT !.calls = Append(@, Sys(c, n, st))]

\* close(2)
SysClose(p, n) ==
    IF n \in FdNums /\ p.open[n] # 0
    THEN Called([p EXCEPT !.open[n] = 0], "close", n, 0)
    ELSE Called(p, "close", n, -EBADF)

\* the metadata of a map: sizes as numbers
Meta(ks, vs, me) == [keySize |-> ks, valueSize |-> vs, maxEntries |-> me]
\* a handle before createMapRef has assigned its metadata
NoMeta == Meta(NumOf(0), NumOf(0), NumOf(0))

\* new native.FDRef(fd): the handle owns the number it is given; `held`
\* tells whether the caller of the library has the handle
FDRefNew(n, meta) == [fd |-> n, meta |-> meta, held |-> FALSE, final |-> FALSE]

\* FDRef::Close and ~FDRef on the handle h
RefClose(p, h) ==
    IF p.refs[h].fd = -1 THEN p
    ELSE LET n == p.refs[h].fd
             q == SysClose(p, n)
         IN IF p.open[n] = 0 /\ ~ndebug
            THEN [q EXCEPT !.aborted = TRUE]
            ELSE [q EXCEPT !.refs[h].fd = -1]

\* outcome of a creation function: state, error thrown, index of the handle
COut(p, err, errno, h) == [p |-> p, err |-> err, errno |-> errno, h |-> h]

\* native.getMapInfo(fd): the statuses the kernel can give
InfoStatuses(p, n) == IF p.open[n] = 0 THEN {-EBADF} ELSE {0, -EINVAL}

\* createMapRef once the descriptor to own is known: `new native.FDRef(fd)`,
\* getMapInfo, the fallback to `parameters`
\* (p.kmeta[i] is the metadata the kernel reports for the map i)
RefFromFdPreferParams(p, n, hasParams, meta) ==
    LET p1 == [p EXCEPT !.refs = Append(@, FDRefNew(n, NoMeta))]
        h == Len(p1.refs)
    IN { IF hasParams /\ st \in {0, -EINVAL}
         THEN COut([Called(p1, "info", n, st) EXCEPT !.refs[h].held = TRUE,
                                                     !.refs[h].meta = meta], "none", 0, h)
         ELSE IF st < 0
         THEN COut(Called(p1, "info", n, st), "bpf", -st, 0)
         ELSE COut([Called(p1, "info", n, st) EXCEPT !.refs[h].held = TRUE,
                                                     !.refs[h].meta = p.kmeta[p.open[n]]],
                   "none", 0, h)
         : st \in InfoStatuses(p, n) }
RefFromFd(p, n, hasParams, meta) ==
    LET p1 == [p EXCEPT !.refs = Append(@, FDRefNew(n, NoMeta))]
        h == Len(p1.refs)
    IN { IF st = -EINVAL /\ hasParams
         THEN COut([Called(p1, "info", n, st) EXCEPT !.refs[h].held = TRUE,
                                                     !.refs[h].meta = meta], "none", 0, h)
         ELSE IF st < 0
         THEN COut(Called(p1, "info", n, st), "bpf", -st, 0)
         ELSE COut([Called(p1, "info", n, st) EXCEPT !.refs[h].held = TRUE,
                                                     !.refs[h].meta = p.kmeta[p.open[n]]],
                   "none", 0, h)
         : st \in InfoStatuses(p, n) }

\* createMapRef(fd, {transfer, parameters})
CreateMapRefNoDup(p, n, transfer, hasParams, meta) == RefFromFd(p, n, hasParams, meta)
CreateMapRefOn(p, n, transfer, hasParams, meta) ==
    IF transfer THEN RefFromFd(p, n, hasParams, meta)
    ELSE IF p.open[n] = 0 THEN {COut(Called(p, "dup", n, -EBADF), "bpf", EBADF, 0)}
    ELSE IF FreeFds(p) = {} THEN {COut(Called(p, "dup", n, -EMFILE), "bpf", EMFILE, 0)}
    ELSE UNION { RefFromFd(Called([p EXCEPT !.open[d] = p.open[n]], "dup", n, d),
                           d, hasParams, meta) : d \in FreeFds(p) }

\* a map definition: sizes, and innerMap (None, a definition, or a handle)
SizeVals == {NumOf(-1), NumOf(KeySize), Num(2 ^ 16, 0, 0), Num(0, KeySize, 5)}
ValidDef == Meta(NumOf(KeySize), NumOf(KeySize), NumOf(KeySize))
\* the `parameters` a caller of createMapRef supplies
RefParams == Meta(NumOf(KeySize), NumOf(ValueSize), NumOf(1))
\* definitions with at most one size out of range
OuterDefs == {[ValidDef EXCEPT ![f] = x] :
                 f \in {"keySize", "valueSize", "maxEntries"}, x \in SizeVals}
InnerDefs == {Meta(x, NumOf(KeySize), NumOf(KeySize)) : x \in SizeVals}

\* the checkU32 calls at the head of createMap pass
DescOkAlways(meta) == TRUE
DescOk(meta) ==
    CheckU32(meta.keySize) /\ CheckU32(meta.valueSize) /\ CheckU32(meta.maxEntries)

\* native.createMap(desc): the results the kernel can give
CreateStatuses(p, innerFd) ==
    IF FreeFds(p) = {} THEN {-EMFILE}
    ELSE IF innerFd # 0 /\ p.open[innerFd] = 0 THEN {-EBADF}
    ELSE {-EPERM} \cup FreeFds(p)

\* createMap from checkU32 to the return, for a definition whose innerMap is
\* absent or already a descriptor number (0 when absent)
CreateMapFlat(p, meta, innerFd) ==
    IF ~DescOk(meta) THEN {COut(p, "range", 0, 0)}
    ELSE UNION {
         IF st < 0 THEN {COut(Called(p, "create", innerFd, st), "bpf", -st, 0)}
         ELSE LET id == CHOOSE i \in FreshIds(p) : \A j \in FreshIds(p) : i <= j
              IN CreateMapRefOn(Called([p EXCEPT !.open[st] = id, !.kmeta[id] = meta],
                                       "create", innerFd, st),
                                st, TRUE, TRUE, meta)
         : st \in CreateStatuses(p, innerFd) }

\* `finally { innerRef && innerRef.close() }`; the handle is then dropped
CloseInnerSkip(o, h) == o
CloseInner(o, h) ==
    IF h = 0 THEN o
    ELSE [o EXCEPT !.p = [RefClose(o.p, h) EXCEPT !.refs[h].held = FALSE]]

\* createMap(desc) where desc.innerMap is a map definition or a closed handle:
\* the inner map is created first and its handle closed on the way out
CreateMapWithInner(p, meta, innerMeta) ==
    IF ~DescOk(meta) THEN {COut(p, "range", 0, 0)}
    ELSE UNION {
         IF i.err # "none" THEN {i}
         ELSE {CloseInner(o, i.h) : o \in CreateMapFlat(i.p, meta, i.p.refs[i.h].fd)}
         : i \in CreateMapFlat(p, innerMeta, 0) }

\* outcome of the last call on the creation interface
CLast(op, kind, arg, transfer, meta, o) ==
    [op |-> op, kind |-> kind, arg |-> arg, transfer |-> transfer, meta |-> meta,
     err |-> o.err, errno |-> o.errno, h |-> o.h,
     before |-> Len(proc.refs),
     argMap |-> IF op = "createMapRef" THEN proc.open[arg]
                ELSE IF op \in {"close", "finalize"} /\ proc.refs[arg].fd # -1
                THEN proc.open[proc.refs[arg].fd]
                ELSE 0]

ProcIdle ==
    [open |-> [n \in FdNums |-> 0], kmeta |-> [i \in MapIds |-> NoMeta],
     refs |-> <<>>, calls |-> <<>>, aborted |-> FALSE,
     last |-> [op |-> "none", kind |-> "none", arg |-> 0, transfer |-> FALSE,
               meta |-> NoMeta,
               err |-> "none", errno |-> 0, h |-> 0, before |-> 0, argMap |-> 0]]

Held == {h \in DOMAIN proc.refs : proc.refs[h].held /\ ~proc.refs[h].final}
Fresh == [proc EXCEPT !.calls = <<>>]
otherVars == <<handleVars, ref, kfrozen, kmap, lastOp, gb, bcall, bop, it, qu, ifs>>

\* createMap(desc), desc.innerMap undefined
CreateMapPlain ==
    /\ ~proc.aborted /\ Len(proc.refs) < MaxRefs
    /\ \E meta \in OuterDefs :
          \E o \in CreateMapFlat(Fresh, meta, 0) :
             proc' = [o.p EXCEPT !.last = CLast("createMap", "none", 0, FALSE, meta, o)]
    /\ UNCHANGED otherVars

\* createMap(desc), desc.innerMap a map definition
CreateMapInnerDef ==
    /\ ~proc.aborted /\ Len(proc.refs) + 1 < MaxRefs
    /\ \E ks \in SizeVals, d \in InnerDefs :
          \E o \in CreateMapWithInner(Fresh, Meta(ks, NumOf(KeySize), NumOf(KeySize)), d) :
             proc' = [o.p EXCEPT !.last = CLast("createMap", "def", 0, FALSE,
                                             Meta(ks, NumOf(KeySize), NumOf(KeySize)), o)]
    /\ UNCHANGED otherVars

\* `innerRef` when desc.innerMap is a handle whose fd could be read: it stays
\* undefined (0), so that `finally` closes nothing
InnerRefGiven(h) == h
InnerRef(h) == 0

\* createMap(desc) where desc.innerMap is an open handle
CreateMapOverRef(p, meta, h) ==
    {CloseInner(o, InnerRef(h)) : o \in CreateMapFlat(p, meta, p.refs[h].fd)}

\* createMap(desc), desc.innerMap a descriptor number
CreateMapInnerFd ==
    /\ ~proc.aborted /\ Len(proc.refs) < MaxRefs
    /\ \E n \in FdNums :
          \E o \in CreateMapFlat(Fresh, ValidDef, n) :
             proc' = [o.p EXCEPT !.last = CLast("createMap", "fd", n, FALSE, ValidDef, o)]
    /\ UNCHANGED otherVars

\* createMap(desc), desc.innerMap a handle: its fd is used when it can be
\* read, and the handle is taken as a map definition when reading fd throws
CreateMapInnerRef ==
    /\ ~proc.aborted
    /\ \E ks \in SizeVals, h \in Held :
          /\ Len(proc.refs) + (IF proc.refs[h].fd # -1 THEN 1 ELSE 2) <= MaxRefs
          /\ LET meta == Meta(ks, NumOf(KeySize), NumOf(KeySize))
                 outs == IF proc.refs[h].fd # -1
                         THEN CreateMapOverRef(Fresh, meta, h)
                         ELSE CreateMapWithInner(Fresh, meta, proc.refs[h].meta)
             IN \E o \in outs :
                   proc' = [o.p EXCEPT !.last =
                               CLast("createMap",
                                     IF proc.refs[h].fd # -1 THEN "ref" ELSE "closedref",
                                     h, FALSE, meta, o)]
    /\ UNCHANGED otherVars

\* MapFlags.NUMA_NODE
NUMA_NODE == 4

\* x | 0: the number as a signed 32-bit integer, as `|=` takes its operands
ToInt32(x) ==
    LET u == ToUint32(x)
    IN IF u.hi >= 2 ^ 15 THEN Num(u.hi - 2 ^ 16, u.lo, 0) ELSE u
\* x | MapFlags.NUMA_NODE
OrNumaNode(x) ==
    LET i == ToInt32(x)
    IN IF (i.lo \div NUMA_NODE) % 2 = 1 THEN i ELSE Num(i.hi, i.lo + NUMA_NODE, 0)

\* desc.numaNode !== undefined
NumaGivenTruthy(numaNode) == numaNode # None /\ numaNode[1] # NumOf(0)
NumaGiven(numaNode) == numaNode # None

\* desc.flags after `desc = { flags: 0, ...desc }` and the numaNode test
DescFlags(flags, numaNode) ==
    LET f == IF flags = None THEN NumOf(0) ELSE flags[1]
    IN IF NumaGiven(numaNode) THEN OrNumaNode(f) ELSE f
\* attr.map_flags and attr.numa_node of the binding: GetNumber<uint32_t>
AttrFlags(f) == ToUint32(f)
AttrNumaNode(numaNode) == IF numaNode = None THEN NumOf(0) ELSE ToUint32(numaNode[1])

\* the flags and the node a caller may give; None is a property left out
FlagArgs == {None} \cup {Some(x) : x \in {NumOf(0), NumOf(1), NumOf(NUMA_NODE),
                                          NumOf(NUMA_NODE + 1), Num(2 ^ 15, 0, 0),
                                          Num(2 ^ 16 - 1, 2 ^ 16 - 1, 0)}}
NumaArgs == {None, Some(NumOf(0)), Some(NumOf(1))}

\* createMap(desc) with desc.flags and desc.numaNode, desc.innerMap undefined;
\* `attr` is what bpf_create_map_xattr was given when it was called
CreateMapFlags ==
    /\ ~proc.aborted /\ Len(proc.refs) < MaxRefs
    /\ \E flags \in FlagArgs, numaNode \in NumaArgs :
          \E o \in CreateMapFlat(Fresh, ValidDef, 0) :
             proc' = [o.p EXCEPT !.last =
                         [op |-> "createMap", kind |-> "flags", arg |-> 0,
                          transfer |-> FALSE, meta |-> ValidDef,
                          err |-> o.err, errno |-> o.errno, h |-> o.h,
                          before |-> Len(proc.refs), argMap |-> 0,
                          flags |-> flags, numaNode |-> numaNode,
                          attr |-> IF \E i \in DOMAIN o.p.calls : o.p.calls[i].c = "create"
                                   THEN Some([flags |-> AttrFlags(DescFlags(flags, numaNode)),
                                              numaNode |-> AttrNumaNode(numaNode)])
                                   ELSE None]]
    /\ UNCHANGED otherVars

\* createMapRef(fd, options)
CreateMapRef ==
    /\ ~proc.aborted /\ Len(proc.refs) < MaxRefs
    /\ \E n \in FdNums, transfer \in BOOLEAN, hasParams \in BOOLEAN :
          \E o \in CreateMapRefOn(Fresh, n, transfer, hasParams, RefParams) :
             proc' = [o.p EXCEPT !.last =
                         CLast("createMapRef", IF hasParams THEN "params" ELSE "none",
                               n, transfer, IF hasParams THEN RefParams ELSE NoMeta, o)]
    /\ UNCHANGED otherVars

\* MapRef.close() on a handle the caller has
CloseRef ==
    /\ ~proc.aborted
    /\ \E h \in Held :
          proc' = [RefClose(Fresh, h) EXCEPT
                      !.last = CLast("close", "none", h, FALSE, NoMeta, COut(proc, "none", 0, h))]
    /\ UNCHANGED otherVars

\* a handle nothing refers to any more is finalized (~FDRef)
FinalizeRef ==
    /\ ~proc.aborted
    /\ \E h \in {i \in DOMAIN proc.refs : ~proc.refs[i].final} :
          proc' = [RefClose(Fresh, h) EXCEPT
                      !.refs[h].final = TRUE, !.refs[h].held = FALSE,
                      !.last = CLast("finalize", "none", h, FALSE, NoMeta, COut(proc, "none", 0, h))]
    /\ UNCHANGED otherVars

\* the caller closes a descriptor of its own, one that no handle owns
ExternalClose ==
    /\ ~proc.aborted
    /\ \E n \in FdNums :
          /\ proc.open[n] # 0
          /\ \A h \in DOMAIN proc.refs : proc.refs[h].fd # n
          /\ proc' = [Fresh EXCEPT
                         !.open[n] = 0,
                         !.last = CLast("extclose", "none", n, FALSE, NoMeta,
                                      COut(proc, "none", 0, 0))]
    /\ UNCHANGED otherVars

\* ------------------------------------------------------------ specification

\* a handle as returned by createMap, createMapRef or openMap
HandleInit ==
    /\ fd \in Fds
    /\ origFd = fd
    /\ closeLog = <<>>
    /\ userCloses = 0
    /\ finalized = FALSE
    /\ aborted = FALSE
    /\ lastOp = NoOp
    /\ kfrozen = FALSE

BatchIdle == gb = GbIdle /\ bcall = NoBCall /\ bop = NoBOp
IterIdle == it = ItIdle

vars == <<fd, origFd, closeLog, userCloses, finalized, aborted, ndebug, ref, kmap, kfrozen,
          lastOp,
          gb, bcall, bop, it, proc, qu, ifs>>

\* handles and single-entry calls
Init ==
    /\ HandleInit
    /\ ndebug \in BOOLEAN
    /\ \E t \in MapTypes : ref = MapInfo(t, MaxEntries) /\ kmap = EmptyMap(t, MaxEntries)
    /\ BatchIdle
    /\ IterIdle
    /\ proc = ProcIdle
    /\ qu = QuIdle
    /\ ifs = IfsIdle

Next ==
    \/ Close /\ UNCHANGED <<gb, bcall, bop, it, proc, qu, ifs>>
    \/ Finalize /\ UNCHANGED <<gb, bcall, bop, it, proc, qu, ifs>>
    \/ ReadFD /\ UNCHANGED <<gb, bcall, bop, it, proc, qu, ifs>>
    \/ ReadInfo /\ UNCHANGED <<gb, bcall, bop, it, proc, qu, ifs>>
    \/ Get /\ UNCHANGED <<gb, bcall, bop, it, proc, qu, ifs>>
    \/ GetDelete /\ UNCHANGED <<gb, bcall, bop, it, proc, qu, ifs>>
    \/ Set /\ UNCHANGED <<gb, bcall, bop, it, proc, qu, ifs>>
    \/ Delete /\ UNCHANGED <<gb, bcall, bop, it, proc, qu, ifs>>
    \/ GetNextKey /\ UNCHANGED <<gb, bcall, bop, it, proc, qu, ifs>>
    \/ ArrayGet /\ UNCHANGED <<gb, bcall, bop, it, proc, qu, ifs>>
    \/ ArraySet /\ UNCHANGED <<gb, bcall, bop, it, proc, qu, ifs>>
    \/ QueuePeek /\ UNCHANGED <<gb, bcall, bop, it, proc, qu, ifs>>
    \/ QueuePop /\ UNCHANGED <<gb, bcall, bop, it, proc, qu, ifs>>
    \/ QueuePush /\ UNCHANGED <<gb, bcall, bop, it, proc, qu, ifs>>

Spec == Init /\ [][Next]_vars

\* batch operations against a kernel that may report any status and count
InitBatch ==
    /\ HandleInit
    /\ ndebug = FALSE
    /\ \E t \in {"HASH", "ARRAY"} : ref = MapInfo(t, MaxBatch) /\ kmap = EmptyMap(t, MaxBatch)
    /\ BatchIdle
    /\ IterIdle
    /\ proc = ProcIdle
    /\ qu = QuIdle
    /\ ifs = IfsIdle

NextBatch ==
    \/ GbStart /\ UNCHANGED <<it, proc, qu, ifs>>
    \/ GbCall /\ UNCHANGED <<it, proc, qu, ifs>>
    \/ GbResume /\ UNCHANGED <<it, proc, qu, ifs>>
    \/ SetBatch /\ UNCHANGED <<it, proc, qu, ifs>>
    \/ DeleteBatch /\ UNCHANGED <<it, proc, qu, ifs>>
    \/ GetAll /\ UNCHANGED <<it, proc, qu, ifs>>

SpecBatch == InitBatch /\ [][NextBatch]_vars

\* one handle on an array map: single-element calls and bulk calls, each
\* dropping the record of the call before it
InitArray ==
    /\ HandleInit
    /\ ndebug = FALSE
    /\ ref = MapInfo("ARRAY", MaxBatch)
    /\ kmap = EmptyMap("ARRAY", MaxBatch)
    /\ BatchIdle
    /\ IterIdle
    /\ proc = ProcIdle
    /\ qu = QuIdle
    /\ ifs = IfsIdle

\* a single-element call drops the records of the bulk call before it
DropBatch == gb' = GbIdle /\ bcall' = NoBCall /\ bop' = NoBOp

NextArray ==
    \/ ArrayGet /\ DropBatch /\ UNCHANGED <<it, proc, qu, ifs>>
    \/ ArraySet /\ DropBatch /\ UNCHANGED <<it, proc, qu, ifs>>
    \/ SetBatch /\ UNCHANGED <<it, proc, qu, ifs>>
    \/ DeleteBatch /\ UNCHANGED <<it, proc, qu, ifs>>
    \/ ArraySetBatch /\ UNCHANGED <<it, proc, qu, ifs>>
    \/ SetAll /\ UNCHANGED <<it, proc, qu, ifs>>
    \/ GetAll /\ UNCHANGED <<it, proc, qu, ifs>>

SpecArray == InitArray /\ [][NextArray]_vars

\* key iteration over a hash map that other actors delete from and write to
InjSeqs(S, n) == {q \in UNION {[1 .. l -> S] : l \in 0 .. n} :
                     \A i, j \in DOMAIN q : i # j => q[i] # q[j]}

InitIter ==
    /\ HandleInit
    /\ ndebug = FALSE
    /\ ref = MapInfo("HASH", MaxIterKey + 1)
    /\ \E q \in InjSeqs(IterKeys, MaxIterKey + 1) :
          kmap = [i \in DOMAIN q |-> Entry(q[i], 0)]
    /\ BatchIdle
    /\ IterIdle
    /\ proc = ProcIdle
    /\ qu = QuIdle
    /\ ifs = IfsIdle

NextIter ==
    \/ KeysStart /\ UNCHANGED <<proc, qu, ifs>>
    \/ KeysPrefetch /\ UNCHANGED <<proc, qu, ifs>>
    \/ EntriesLookup /\ UNCHANGED <<proc, qu, ifs>>
    \/ KeysResume /\ UNCHANGED <<proc, qu, ifs>>
    \/ IterDelete /\ UNCHANGED <<proc, qu, ifs>>
    \/ IterSet /\ UNCHANGED <<proc, qu, ifs>>

SpecIter == InitIter /\ [][NextIter]_vars

\* clear() and the iterations before and after it, on a hash map that no
\* other actor touches
InitClear ==
    /\ HandleInit
    /\ ndebug = FALSE
    /\ ref = MapInfo("HASH", MaxIterKey + 1)
    /\ \E q \in InjSeqs(IterKeys, MaxIterKey + 1) :
          kmap = [i \in DOMAIN q |-> Entry(q[i], 0)]
    /\ BatchIdle
    /\ it = [ItIdle EXCEPT !.track = TRUE]
    /\ proc = ProcIdle
    /\ qu = QuIdle
    /\ ifs = IfsIdle

NextClear ==
    \/ KeysStart /\ UNCHANGED <<proc, qu, ifs>>
    \/ KeysPrefetch /\ UNCHANGED <<proc, qu, ifs>>
    \/ EntriesLookup /\ UNCHANGED <<proc, qu, ifs>>
    \/ KeysResume /\ UNCHANGED <<proc, qu, ifs>>
    \/ ClearStart /\ UNCHANGED <<proc, qu, ifs>>
    \/ ClearDelete /\ UNCHANGED <<proc, qu, ifs>>

\* the caller keeps pulling the generators it started, and clear() runs to
\* its end once called
SpecClear == InitClear /\ [][NextClear]_vars /\ WF_vars(NextClear)

\* one handle on a hash map, used by one caller
InitRef ==
    /\ HandleInit
    /\ ndebug = FALSE
    /\ ref = MapInfo("HASH", MaxRefEntries)
    /\ kmap = EmptyMap("HASH", MaxRefEntries)
    /\ BatchIdle
    /\ IterIdle
    /\ proc = ProcIdle
    /\ qu = QuIdle
    /\ ifs = IfsIdle

NextRef ==
    \/ Get /\ UNCHANGED <<gb, bcall, bop, it, proc, qu, ifs>>
    \/ Has /\ UNCHANGED <<gb, bcall, bop, it, proc, qu, ifs>>
    \/ Set /\ UNCHANGED <<gb, bcall, bop, it, proc, qu, ifs>>
    \/ Delete /\ UNCHANGED <<gb, bcall, bop, it, proc, qu, ifs>>
    \/ EntriesAll /\ UNCHANGED <<gb, bcall, bop, it, proc, qu, ifs>>

SpecRef == InitRef /\ [][NextRef]_vars

\* creation, duplication, transfer and release of descriptors
InitCreate ==
    /\ HandleInit
    /\ ndebug \in BOOLEAN
    /\ ref = MapInfo("HASH", MaxEntries)
    /\ kmap = EmptyMap("HASH", MaxEntries)
    /\ BatchIdle
    /\ IterIdle
    /\ proc = [ProcIdle EXCEPT !.open[3] = 1, !.kmeta[1] = ValidDef]
    /\ qu = QuIdle
    /\ ifs = IfsIdle

NextCreate ==
    \/ CreateMapPlain
    \/ CreateMapInnerDef
    \/ CreateMapInnerRef
    \/ CreateMapInnerFd
    \/ CreateMapRef
    \/ CloseRef
    \/ FinalizeRef
    \/ ExternalClose

SpecCreate == InitCreate /\ [][NextCreate]_vars

\* maps created with flags and a NUMA node, and closed again
NextFlags ==
    \/ CreateMapFlags
    \/ CloseRef
    \/ FinalizeRef

SpecFlags == InitCreate /\ [][NextFlags]_vars

\* ------------------------------------------ checkStatus (exception.ts)

\* LibbpfErrno: the first code, and the names in the order of the enum
LIBELF == 4000
LibbpfNames ==
    <<"LIBELF", "FORMAT", "KVERSION", "ENDIAN", "INTERNAL", "RELOC", "LOAD", "VERIFY",
      "PROG2BIG", "KVER", "PROGTYPE", "WRNGPID", "INVSEQ", "NLPARSE">>
\* Object.hasOwnProperty.call(LibbpfErrno, errno)
IsLibbpfErrno(errno) == errno >= LIBELF /\ errno < LIBELF + Len(LibbpfNames)

\* a non-negative integer in decimal digits
RECURSIVE Decimal(_)
Decimal(n) ==
    LET digit == <<"0", "1", "2", "3", "4", "5", "6", "7", "8", "9">>[(n % 10) + 1]
    IN IF n < 10 THEN digit ELSE Decimal(n \div 10) \o digit

\* util.getSystemErrorName(-errno)
SystemErrorName(errno) ==
    CASE errno = EPERM -> "EPERM"
      [] errno = ENOENT -> "ENOENT"
      [] errno = E2BIG -> "E2BIG"
      [] errno = EBADF -> "EBADF"
      [] errno = EFAULT -> "EFAULT"
      [] errno = EBUSY -> "EBUSY"
      [] errno = EINVAL -> "EINVAL"
      [] errno = EMFILE -> "EMFILE"
      [] errno = ENOSPC -> "ENOSPC"
      [] OTHER -> "Unknown system error -" \o Decimal(errno)

\* BPFError.getCode
GetCodeSystemOnly(errno) == SystemErrorName(errno)
GetCode(errno) ==
    IF errno = ENOTSUPP THEN "ENOTSUPP"
    ELSE IF IsLibbpfErrno(errno) THEN LibbpfNames[errno - LIBELF + 1]
    ELSE SystemErrorName(errno)

\* new BPFError(errno, operation, count); count is None when it was not given,
\* and the property is then not set
BPFError(errno, operation, count) ==
    [name |-> "BPFError", operation |-> operation, errno |-> errno,
     code |-> GetCode(errno), count |-> count]

\* checkStatus(operation, status, count): the error thrown, None when it returns
CheckStatusNonZero(operation, status, count) ==
    IF status # 0 THEN Some(BPFError(-status, operation, count)) ELSE None
CheckStatus(operation, status, count) ==
    IF status < 0 THEN Some(BPFError(-status, operation, count)) ELSE None

\* the operations, statuses and counts checkStatus is called with
Operations == {"bpf_create_map_xattr", "bpf_map_update_batch", "dup"}
StatusArgs ==
    {0, 1, MaxFdNum, -EPERM, -ENOENT, -EINVAL, -ENOSPC, -ENOTSUPP, -(ENOTSUPP + 1)}
        \cup {-(LIBELF + i) : i \in {-1, 0, 1, Len(LibbpfNames) - 1, Len(LibbpfNames)}}
CountArgs == {None} \cup {Some(n) : n \in 0 .. MaxBatch}

StatusCall(operation, status, count, thrown) ==
    [op |-> operation, st |-> status, count |-> count, thrown |-> thrown]

CheckStatusCall ==
    /\ \E operation \in Operations, status \in StatusArgs, count \in CountArgs :
          lastOp' = StatusCall(operation, status, count,
                               CheckStatus(operation, status, count))
    /\ UNCHANGED <<handleVars, ref, kfrozen, kmap, gb, bcall, bop, it, proc, qu, ifs>>

InitStatus ==
    /\ fd \in Fds
    /\ origFd = fd
    /\ closeLog = <<>>
    /\ userCloses = 0
    /\ finalized = FALSE
    /\ aborted = FALSE
    /\ kfrozen = FALSE
    /\ ndebug = FALSE
    /\ lastOp = StatusCall("none", 0, None, None)
    /\ ref = MapInfo("HASH", MaxEntries)
    /\ kmap = EmptyMap("HASH", MaxEntries)
    /\ BatchIdle
    /\ IterIdle
    /\ proc = ProcIdle
    /\ qu = QuIdle
    /\ ifs = IfsIdle

NextStatus == CheckStatusCall

SpecStatus == InitStatus /\ [][NextStatus]_vars

\* one handle, closed by its caller at any moment, and the generators of its
\* interface: getBatch on an array, keys / entries / values on a hash map,
\* consumeValues on a queue
InitPull ==
    /\ HandleInit
    /\ ndebug = FALSE
    /\ \E t \in {"HASH", "ARRAY", "QUEUE"} :
          /\ ref = MapInfo(t, MaxIterKey)
          /\ kmap = IF t = "ARRAY" THEN EmptyMap(t, MaxIterKey)
                    ELSE [i \in 1 .. MaxIterKey |-> Entry(i - 1, 0)]
    /\ BatchIdle
    /\ IterIdle
    /\ proc = ProcIdle
    /\ qu = QuIdle
    /\ ifs = IfsIdle

NextPull ==
    \/ Close /\ UNCHANGED <<gb, bcall, bop, it, proc, qu, ifs>>
    \/ (IsArrayRef /\ GbStart) /\ UNCHANGED <<it, proc, qu, ifs>>
    \/ GbCall /\ UNCHANGED <<it, proc, qu, ifs>>
    \/ GbResume /\ UNCHANGED <<it, proc, qu, ifs>>
    \/ (Alive /\ ref.type = "HASH" /\ KeysStart) /\ UNCHANGED <<proc, qu, ifs>>
    \/ (Alive /\ KeysPrefetch) /\ UNCHANGED <<proc, qu, ifs>>
    \/ (Alive /\ EntriesLookup) /\ UNCHANGED <<proc, qu, ifs>>
    \/ (Alive /\ KeysResume) /\ UNCHANGED <<proc, qu, ifs>>
    \/ CvCall /\ UNCHANGED <<gb, bcall, bop, it, proc, ifs>>
    \/ CvNext /\ UNCHANGED <<gb, bcall, bop, it, proc, ifs>>

SpecPull == InitPull /\ [][NextPull]_vars

\* getBatch pulled to its end, over a kernel that answers anything or over
\* one that serves a map nobody changes, on a handle the caller may close
InitLive ==
    /\ HandleInit
    /\ ndebug = FALSE
    /\ \E t \in {"HASH", "ARRAY"}, n \in 0 .. (MaxBatch + 1) :
          /\ ref = MapInfo(t, MaxBatch + 1)
          /\ t = "ARRAY" => n = MaxBatch + 1
          /\ kmap = [i \in 1 .. n |-> Entry(i - 1, 0)]
    /\ \E env \in {"any", "map"} : gb = [GbIdle EXCEPT !.env = env]
    /\ bcall = NoBCall /\ bop = NoBOp
    /\ IterIdle
    /\ proc = ProcIdle
    /\ qu = QuIdle
    /\ ifs = IfsIdle

\* a pull of the generator by its consumer
GbPull == (GbCall \/ GbResume) /\ UNCHANGED <<it, proc, qu, ifs>>

NextLive ==
    \/ GbStart /\ UNCHANGED <<it, proc, qu, ifs>>
    \/ GbCall /\ UNCHANGED <<it, proc, qu, ifs>>
    \/ GbResume /\ UNCHANGED <<it, proc, qu, ifs>>
    \/ Close /\ UNCHANGED <<gb, bcall, bop, it, proc, qu, ifs>>

\* the consumer keeps pulling: the generator is fully consumed
SpecLive == InitLive /\ [][NextLive]_vars /\ WF_vars(GbPull)

\* one handle on a hash map, a queue or a stack that may get frozen
InitFreeze ==
    /\ HandleInit
    /\ ndebug = FALSE
    /\ \E t \in {"HASH", "QUEUE", "STACK"} :
          ref = MapInfo(t, MaxRefEntries) /\ kmap = EmptyMap(t, MaxRefEntries)
    /\ BatchIdle
    /\ IterIdle
    /\ proc = ProcIdle
    /\ qu = QuIdle
    /\ ifs = IfsIdle

NextFreeze ==
    \/ Freeze /\ UNCHANGED <<gb, bcall, bop, it, proc, qu, ifs>>
    \/ (~IsQueueRef /\ Get) /\ UNCHANGED <<gb, bcall, bop, it, proc, qu, ifs>>
    \/ (~IsQueueRef /\ Set) /\ UNCHANGED <<gb, bcall, bop, it, proc, qu, ifs>>
    \/ (~IsQueueRef /\ Delete) /\ UNCHANGED <<gb, bcall, bop, it, proc, qu, ifs>>
    \/ (~IsQueueRef /\ GetDelete) /\ UNCHANGED <<gb, bcall, bop, it, proc, qu, ifs>>
    \/ QueuePeek /\ UNCHANGED <<gb, bcall, bop, it, proc, qu, ifs>>
    \/ QueuePop /\ UNCHANGED <<gb, bcall, bop, it, proc, qu, ifs>>
    \/ QueuePush /\ UNCHANGED <<gb, bcall, bop, it, proc, qu, ifs>>

SpecFreeze == InitFreeze /\ [][NextFreeze]_vars

\* one handle that is used, frozen, closed and assigned to by its caller
InitInfo ==
    /\ HandleInit
    /\ ndebug = FALSE
    /\ \E t \in {"HASH", "QUEUE"} :
          ref = MapInfo(t, MaxEntries) /\ kmap = EmptyMap(t, MaxEntries)
    /\ BatchIdle
    /\ IterIdle
    /\ proc = ProcIdle
    /\ qu = QuIdle
    /\ ifs = IfsIdle

NextInfo ==
    \/ AssignInfo /\ UNCHANGED <<gb, bcall, bop, it, proc, qu, ifs>>
    \/ ReadInfo /\ UNCHANGED <<gb, bcall, bop, it, proc, qu, ifs>>
    \/ Close /\ UNCHANGED <<gb, bcall, bop, it, proc, qu, ifs>>
    \/ Freeze /\ UNCHANGED <<gb, bcall, bop, it, proc, qu, ifs>>
    \/ (~IsQueueRef /\ Set) /\ UNCHANGED <<gb, bcall, bop, it, proc, qu, ifs>>
    \/ (~IsQueueRef /\ Delete) /\ UNCHANGED <<gb, bcall, bop, it, proc, qu, ifs>>
    \/ QueuePush /\ UNCHANGED <<gb, bcall, bop, it, proc, qu, ifs>>
    \/ QueuePop /\ UNCHANGED <<gb, bcall, bop, it, proc, qu, ifs>>

SpecInfo == InitInfo /\ [][NextInfo]_vars

\* one handle of any type, also one built from parameters that give a queue
\* a key size, and the interfaces its caller constructs over it
InitIface ==
    /\ HandleInit
    /\ ndebug = FALSE
    /\ \E t \in MapTypes, ks \in {0, KeySize} :
          /\ ref = [MapInfo(t, MaxEntries) EXCEPT !.keySize = ks]
          /\ t \in {"HASH", "ARRAY"} => ks = KeySize
          /\ kmap = IF t = "ARRAY"
                    THEN [i \in 1 .. MaxEntries |-> Entry(i - 1, Bytes(NumOf(0)))]
                    ELSE <<>>
    /\ BatchIdle
    /\ IterIdle
    /\ proc = ProcIdle
    /\ qu = QuIdle
    /\ ifs = IfsIdle

NextIface ==
    \/ Construct /\ UNCHANGED <<gb, bcall, bop, it, proc, qu>>
    \/ Close /\ UNCHANGED <<gb, bcall, bop, it, proc, qu, ifs>>
    \/ (Via("RawMap") /\ ref.type = "HASH" /\ GetBytes /\ Raw)
          /\ UNCHANGED <<gb, bcall, bop, it, proc, qu>>
    \/ (ref.type = "HASH" /\ ConvDelete) /\ UNCHANGED <<gb, bcall, bop, it, proc, qu>>
    \/ ConvArrayGet /\ UNCHANGED <<gb, bcall, bop, it, proc, qu>>
    \/ ConvPop /\ UNCHANGED <<gb, bcall, bop, it, proc, qu>>
    \/ (Via("RawArrayMap") /\ ArrayGet /\ Raw) /\ UNCHANGED <<gb, bcall, bop, it, proc, qu>>
    \/ (Via("RawQueueMap") /\ QueuePop /\ Raw) /\ UNCHANGED <<gb, bcall, bop, it, proc, qu>>

SpecIface == InitIface /\ [][NextIface]_vars

\* the interfaces a handle admits
Constructible(r) == {k \in IfaceKinds : New(k, r) = "none"}

\* the converted interfaces over one handle, with the u32type codec for keys
\* and values
InitConv ==
    /\ HandleInit
    /\ ndebug = FALSE
    /\ \E t \in MapTypes :
          /\ ref = MapInfo(t, MaxRefEntries)
          /\ kmap = IF t = "ARRAY"
                    THEN [i \in 1 .. MaxRefEntries |-> Entry(i - 1, Bytes(NumOf(0)))]
                    ELSE <<>>
    /\ BatchIdle
    /\ IterIdle
    /\ proc = ProcIdle
    /\ qu = QuIdle
    /\ ifs = [IfsIdle EXCEPT !.made = Constructible(ref) \cap
                                         {"ConvMap", "ConvArrayMap", "ConvQueueMap"}]

NextConv ==
    \/ (ref.type = "HASH" /\ ConvGet) /\ UNCHANGED <<gb, bcall, bop, it, proc, qu>>
    \/ (ref.type = "HASH" /\ ConvGetDelete) /\ UNCHANGED <<gb, bcall, bop, it, proc, qu>>
    \/ (ref.type = "HASH" /\ ConvSet) /\ UNCHANGED <<gb, bcall, bop, it, proc, qu>>
    \/ (ref.type = "HASH" /\ ConvDelete) /\ UNCHANGED <<gb, bcall, bop, it, proc, qu>>
    \/ ConvArrayGet /\ UNCHANGED <<gb, bcall, bop, it, proc, qu>>
    \/ ConvArraySet /\ UNCHANGED <<gb, bcall, bop, it, proc, qu>>
    \/ ConvPeek /\ UNCHANGED <<gb, bcall, bop, it, proc, qu>>
    \/ ConvPop /\ UNCHANGED <<gb, bcall, bop, it, proc, qu>>
    \/ ConvPush /\ UNCHANGED <<gb, bcall, bop, it, proc, qu>>

SpecConv == InitConv /\ [][NextConv]_vars

\* one handle on a queue or a stack, its caller and another actor pushing
InitQueue ==
    /\ HandleInit
    /\ ndebug = FALSE
    /\ \E t \in {"QUEUE", "STACK"} :
          ref = MapInfo(t, MaxRefEntries) /\ kmap = EmptyMap(t, MaxRefEntries)
    /\ BatchIdle
    /\ IterIdle
    /\ proc = ProcIdle
    /\ qu = QuIdle
    /\ ifs = IfsIdle

NextQueue ==
    \/ (CvQuiet /\ Len(qu.pushed) + qu.others < MaxPushes /\ QueuePush /\ QuLog)
          /\ UNCHANGED <<gb, bcall, bop, it, proc, ifs>>
    \/ (CvQuiet /\ QueuePop /\ QuLog) /\ UNCHANGED <<gb, bcall, bop, it, proc, ifs>>
    \/ (CvQuiet /\ QueuePeek /\ QuLog) /\ UNCHANGED <<gb, bcall, bop, it, proc, ifs>>
    \/ (CvQuiet /\ QueueEmpty /\ QuLog) /\ UNCHANGED <<gb, bcall, bop, it, proc, ifs>>
    \/ CvCall /\ UNCHANGED <<gb, bcall, bop, it, proc, ifs>>
    \/ CvNext /\ UNCHANGED <<gb, bcall, bop, it, proc, ifs>>
    \/ ExternalPush /\ UNCHANGED <<gb, bcall, bop, it, proc, ifs>>

SpecQueue == InitQueue /\ [][NextQueue]_vars

\* getBatch over a hash map that holds entries and that nobody changes
InitGet ==
    /\ HandleInit
    /\ ndebug = FALSE
    /\ ref = MapInfo("HASH", MaxBatch + 2)
    /\ \E n \in 0 .. (MaxBatch + 2) : kmap = [i \in 1 .. n |-> Entry(i - 1, i % 2)]
    /\ gb = [GbIdle EXCEPT !.env = "map"]
    /\ bcall = NoBCall /\ bop = NoBOp
    /\ IterIdle
    /\ proc = ProcIdle
    /\ qu = QuIdle
    /\ ifs = IfsIdle

NextGet ==
    \/ GbStart /\ UNCHANGED <<it, proc, qu, ifs>>
    \/ GbCall /\ UNCHANGED <<it, proc, qu, ifs>>
    \/ GbResume /\ UNCHANGED <<it, proc, qu, ifs>>
    \/ DeleteBatch /\ UNCHANGED <<it, proc, qu, ifs>>

SpecGet == InitGet /\ [][NextGet]_vars

\* ------------------------------------------------------------------- claims

RawMapOps == {"RawMap.get", "RawMap.getDelete", "RawMap.set", "RawMap.delete",
              "RawMap.getNextKey"}
ArrayOps == {"RawArrayMap.get", "RawArrayMap.set"}
QueueOps == {"RawQueueMap.peek", "RawQueueMap.pop", "RawQueueMap.push"}
MapOps == RawMapOps \cup ArrayOps \cup QueueOps

\* the buffers of call o have the sizes the handle requires
KeyLenOk(o) == o.key = None \/ o.key[1].len = ref.keySize
ValueLenOk(o) == o.value = None \/ o.value[1].len = ref.valueSize
OutLenOk(o) ==
    \/ o.out = None
    \/ o.out[1].len = (IF o.op = "RawMap.getNextKey" THEN ref.keySize ELSE ref.valueSize)
BufsOk(o) == KeyLenOk(o) /\ ValueLenOk(o) /\ OutLenOk(o)
IndexOk(o) ==
    o.op \in ArrayOps =>
        /\ o.key[1].val.tenths = 0 /\ o.key[1].val.hi = 0
        /\ o.key[1].val.lo < ref.maxEntries

\* C1: the descriptor of a handle is closed exactly once over any sequence of
\* close() calls followed by finalization: the first close() releases it,
\* later close() calls do nothing and do not throw, and the finalizer closes
\* it only when no close() came before.
C1_ClosedExactlyOnce ==
    /\ Len(closeLog) = (IF userCloses > 0 \/ finalized THEN 1 ELSE 0)
    /\ \A i \in DOMAIN closeLog : closeLog[i] = origFd
    /\ lastOp.op \in {"close", "finalize"} => lastOp.err = "none"
    /\ (userCloses > 0 /\ ~aborted) => fd = -1

C1_Witness ==
    userCloses = MaxCloseCalls /\ finalized /\ ~aborted /\ closeLog = <<origFd>>

C3_BadBufferRejected ==
    (lastOp.op \in MapOps /\ ~BufsOk(lastOp)) =>
        /\ lastOp.err = (IF IndexOk(lastOp) THEN "size" ELSE "range")
        /\ ~lastOp.kcall
        /\ ~lastOp.changed

C3_Witness ==
    /\ fd # -1 /\ kmap # <<>>
    /\ lastOp.op = "RawMap.set" /\ KeyLenOk(lastOp) /\ lastOp.value[1].len < ref.valueSize
    /\ lastOp.err = "size"

UpdateOps == {"RawMap.setBatch", "RawMap.deleteBatch", "RawArrayMap.setBatch",
              "RawArrayMap.setAll"}
LookupOps == {"RawMap.getBatch", "RawArrayMap.getBatch", "RawArrayMap.getAll"}

\* C4: fixCount(count, batchSize, status) is undefined when status < 0,
\* count = batchSize and the status is EFAULT; 0 when status < 0,
\* count = batchSize and the status is another error; count otherwise.
C4_FixCount ==
    bcall.op \in UpdateOps =>
        /\ (bcall.status < 0 /\ bcall.raw = bcall.size /\ bcall.status = -EFAULT)
              => bcall.used = None
        /\ (bcall.status < 0 /\ bcall.raw = bcall.size /\ bcall.status # -EFAULT)
              => bcall.used = Some(0)
        /\ (bcall.status >= 0 \/ bcall.raw # bcall.size)
              => bcall.used = Some(bcall.raw)

C4_Witness ==
    /\ bcall.op = "RawMap.deleteBatch" /\ bcall.size > 0
    /\ bcall.status = -EFAULT /\ bcall.raw = bcall.size /\ bcall.used = None

\* C5 (amended): the count the library uses after a kernel batch call is the
\* reconciled count for every update and delete batch call whatever the
\* status and for every lookup batch call whose status is not ENOENT; a
\* lookup batch call that reports ENOENT has its count used as reported, and
\* getAll does not read the count of a call that failed otherwise.
C5_CountReconciled ==
    /\ bcall.op \in (UpdateOps \cup LookupOps) \ {"RawArrayMap.getAll"} => bcall.read
    /\ bcall.op = "RawArrayMap.getAll" =>
          (bcall.read <=> (bcall.status >= 0 \/ bcall.status = -ENOENT))
    /\ bcall.read =>
          bcall.used = (IF bcall.op \in LookupOps /\ bcall.status = -ENOENT
                        THEN Some(bcall.raw)
                        ELSE FixCount(Some(bcall.raw), bcall.size, bcall.status))

C5_Witness ==
    /\ bcall.op = "RawMap.getBatch" /\ bcall.status = -ENOENT
    /\ bcall.raw = bcall.size /\ bcall.used = Some(bcall.size)
    /\ gb.pc = "yielded"

\* C5 as stated: the reconciliation rule is applied to the result of every
\* kernel batch call, whatever the status, before the count is used.
C5_AsStated ==
    bcall.read => bcall.used = FixCount(Some(bcall.raw), bcall.size, bcall.status)

\* C6: setBatch, deleteBatch and setAll return normally only when the kernel
\* reported a non-negative status and a count equal to the number of entries;
\* a non-negative status with another count raises an assertion error and a
\* negative status raises a BPFError carrying the reconciled count.
C6_AllProcessed ==
    (bop.op \in UpdateOps /\ bop.kcall) =>
        /\ bcall.op = bop.op /\ bcall.size = bop.n
        /\ bop.err \in {"none", "assert", "bpf"}
        /\ bop.err = "none" <=> (bcall.status >= 0 /\ bcall.raw = bop.n)
        /\ bop.err = "assert" <=> (bcall.status >= 0 /\ bcall.raw # bop.n)
        /\ bcall.status < 0 =>
              /\ bop.err = "bpf"
              /\ bop.errno = -bcall.status
              /\ bop.count = (IF bcall.raw # bop.n THEN Some(bcall.raw)
                              ELSE IF bcall.status = -EFAULT THEN None ELSE Some(0))

C6_Witness ==
    /\ bop.op = "RawMap.setBatch" /\ bop.kcall /\ bop.err = "assert"
    /\ bcall.status = 0 /\ bcall.raw < bop.n

\* C7: in getBatch (of RawMap, and of RawArrayMap when the indexes returned
\* pass its consistency check) a negative status with a non-zero count has its
\* partial batch yielded before the iterator finishes, which then ends cleanly
\* on ENOENT and throws on any other status; an empty batch is never yielded.
C7_PartialBatchYielded ==
    gb.err # "nonseq" =>
        /\ gb.pc = "yielded" => (Positive(gb.count) /\ gb.yielded)
        /\ gb.yielded => Positive(gb.count)
        /\ (gb.calls # <<>> /\ gb.status < 0 /\ Positive(gb.count)) =>
              \/ gb.pc = "yielded"
              \/ gb.yielded /\ gb.pc = "done" /\ gb.status = -ENOENT
              \/ gb.yielded /\ gb.pc = "thrown" /\ gb.err = "bpf" /\ gb.status # -ENOENT
        /\ gb.pc = "done" => gb.status = -ENOENT
        /\ (gb.pc = "thrown" /\ gb.err = "bpf") => (gb.status < 0 /\ gb.status # -ENOENT)

C7_Witness ==
    /\ gb.iface = "RawMap" /\ gb.pc = "done" /\ gb.yielded
    /\ gb.status = -ENOENT /\ gb.count = Some(1) /\ gb.batchSize > 1

\* C8: the first kernel lookup batch call of getBatch gets no input cursor,
\* every later call gets as input cursor the output cursor written by the call
\* before it, and the input and output cursor buffers of a call differ.
C8_CursorFedBack ==
    \A i \in DOMAIN gb.calls :
        /\ gb.calls[i].in # Some(gb.calls[i].out)
        /\ i = 1 => gb.calls[i].in = None
        /\ i > 1 => /\ gb.calls[i].in = Some(gb.calls[i - 1].out)
                    /\ gb.calls[i].inTok = Some(gb.calls[i - 1].outTok)

C8_Witness ==
    /\ Len(gb.calls) = MaxCalls
    /\ gb.calls[MaxCalls].inTok = Some(MaxCalls - 1)

\* C9: keys() fetches the successor of a key before it yields that key, so
\* when the consumer only deletes keys it was already handed, between pulls,
\* and nothing else changes the map, the keys yielded are the keys the map
\* held at the start, each once and in the kernel's order, with no restart,
\* and the iteration ends after the last of them.
C9_KeysSurviveDeletes ==
    (it.mode = "keys" /\ ~it.disturbed) =>
        /\ it.pc # "thrown"
        /\ Len(it.out) <= Len(it.init)
        /\ \A i \in DOMAIN it.out : it.out[i] = it.init[i]
        /\ it.pc = "done" => it.out = it.init
        /\ it.pc = "yielded" =>
              /\ it.key = Some(it.out[Len(it.out)])
              /\ it.nextOf = it.key

C9_Witness ==
    /\ it.mode = "keys" /\ it.pc = "done" /\ ~it.disturbed
    /\ Len(it.init) = MaxIterKey + 1 /\ it.out = it.init
    /\ kmap = <<>>

\* C10: whatever another actor deletes and whenever, entries() and values()
\* do not throw; a key whose entry is gone when its value is looked up is
\* skipped without being yielded, and a yielded item carries the value the
\* map held for the key at the lookup.
C10_DeletedEntrySkipped ==
    it.mode \in {"entries", "values"} =>
        /\ it.pc # "thrown"
        /\ it.pc = "yielded" =>
              /\ it.held # None /\ it.held[1].present
              /\ it.held[1].k = it.key[1]
              /\ it.item = Some(Item(it.mode, it.held[1].k, Some(it.held[1].v)))
        /\ (it.held # None /\ ~it.held[1].present) => it.item = None

C10_Witness ==
    /\ it.mode = "entries" /\ it.pc = "prefetch"
    /\ it.held # None /\ ~it.held[1].present /\ it.item = None
    /\ it.held[1].k \in Range(it.init)

\* the finite map a kernel hash map stands for: its set of entries
RefMap(m) == Range(m)
RefKeys(m) == Range(KeysOf(m))
RefGet(m, k) == IF k \in RefKeys(m) THEN Some(m[IndexOf(m, k)].v) ELSE None

\* C11: on a hash map used through one handle by one caller, get returns the
\* last value set for the key or undefined, has tells whether the key is
\* present, set overwrites or adds the one entry and leaves the others, delete
\* returns true and removes the entry iff the key was present, iteration
\* yields exactly the current entries, and a call that fails changes nothing.
C11_Step ==
    LET o == lastOp'
        k == o.key[1].val
    IN /\ Cardinality(RefKeys(kmap')) = Len(kmap')
       /\ o.err # "none" => kmap' = kmap
       /\ (o.err = "none" /\ o.op = "RawMap.get") =>
             (o.ret = RefGet(kmap, k) /\ kmap' = kmap)
       /\ (o.err = "none" /\ o.op = "RawMap.has") =>
             (o.ret = Some(k \in RefKeys(kmap)) /\ kmap' = kmap)
       /\ (o.err = "none" /\ o.op = "RawMap.set") =>
             /\ RefMap(kmap') =
                   {e \in RefMap(kmap) : e.k # k} \cup {Entry(k, o.value[1].val)}
             /\ (k \in RefKeys(kmap) => KeysOf(kmap') = KeysOf(kmap))
       /\ (o.err = "none" /\ o.op = "RawMap.delete") =>
             /\ o.ret = Some(k \in RefKeys(kmap))
             /\ RefMap(kmap') = {e \in RefMap(kmap) : e.k # k}
       /\ (o.err = "none" /\ o.op = "RawMap.entries") =>
             /\ Range(o.ret[1]) = RefMap(kmap)
             /\ Len(o.ret[1]) = Cardinality(RefMap(kmap))
             /\ kmap' = kmap

C11_RefinesFiniteMap == [][C11_Step]_vars

C11_Witness ==
    /\ lastOp.op = "RawMap.entries" /\ lastOp.err = "none"
    /\ Len(lastOp.ret[1]) = MaxRefEntries
    /\ \E i \in DOMAIN kmap : kmap[i].v # 0

AbsentOps == {"RawMap.get", "RawMap.getDelete", "RawMap.delete", "RawMap.getNextKey",
              "RawQueueMap.peek", "RawQueueMap.pop"}

\* C12: when lookup, lookup-and-delete, delete or get-next-key returns ENOENT
\* the call returns an absent result (undefined, false for delete) and does
\* not throw; every other negative status is thrown as a BPFError with that
\* errno; a non-negative status returns the result.
C12_EnoentIsAbsent ==
    (lastOp.op \in AbsentOps /\ lastOp.kcall) =>
        /\ lastOp.st = -ENOENT =>
              /\ lastOp.err = "none"
              /\ lastOp.ret = (IF lastOp.op = "RawMap.delete" THEN Some(FALSE) ELSE None)
        /\ (lastOp.st < 0 /\ lastOp.st # -ENOENT) =>
              (lastOp.err = "bpf" /\ lastOp.errno = -lastOp.st /\ lastOp.ret = None)
        /\ lastOp.st >= 0 =>
              /\ lastOp.err = "none" /\ lastOp.ret # None
              /\ lastOp.op = "RawMap.delete" => lastOp.ret = Some(TRUE)

C12_Witness ==
    /\ lastOp.op = "RawQueueMap.pop" /\ lastOp.kcall /\ lastOp.st = -ENOENT
    /\ lastOp.err = "none" /\ lastOp.ret = None

CloseCalls(c) == {i \in DOMAIN c : c[i].c = "close"}

\* C13: createMap with a map definition as innerMap creates the inner map
\* first; when that fails the outer creation call is not issued; otherwise
\* the inner descriptor is passed to the outer creation call and the inner
\* handle is closed exactly once, after the outer call has returned, whether
\* that call succeeded or failed.
C13_InnerHandleReleased ==
    (proc.last.op = "createMap" /\ proc.last.kind \in {"def", "closedref"}
        /\ proc.last.err # "range") =>
        LET c == proc.calls
            f == c[1].st
            inner == proc.last.before + 1
        IN /\ c # <<>> /\ c[1].c = "create" /\ c[1].fd = 0
           /\ f < 0 => (Len(c) = 1 /\ proc.last.err = "bpf"
                           /\ Len(proc.refs) = proc.last.before)
           /\ f >= 0 =>
                 /\ Len(c) >= 4
                 /\ c[2] = Sys("info", f, c[2].st)
                 /\ c[3].c = "create" /\ c[3].fd = f
                 /\ CloseCalls(c) = {Len(c)}
                 /\ c[Len(c)] = Sys("close", f, 0)
                 /\ proc.refs[inner].fd = -1 /\ ~proc.refs[inner].held
                 /\ proc.open[f] = 0
                 /\ proc.last.err = (IF c[3].st < 0 THEN "bpf" ELSE "none")

C13_Witness ==
    /\ proc.last.op = "createMap" /\ proc.last.kind = "def" /\ proc.last.err = "bpf"
    /\ Len(proc.calls) = 4
    /\ proc.calls[3].c = "create" /\ proc.calls[3].st < 0
    /\ proc.calls[4].c = "close"

\* C14: createMapRef(fd) without transfer returns a handle on a descriptor
\* that was not open before, differs from fd and refers to the map fd refers
\* to, with fd left open; closing a handle, finalizing it, or closing a
\* descriptor by hand changes no descriptor but the one closed.
C14_Step ==
    LET l == proc'.last
    IN /\ (l.op = "createMapRef" /\ ~l.transfer /\ l.err = "none") =>
             LET d == proc'.refs[l.h].fd
             IN /\ d # l.arg
                /\ proc.open[l.arg] # 0 /\ proc.open[d] = 0
                /\ proc'.open[d] = proc.open[l.arg]
                /\ \A n \in FdNums \ {d} : proc'.open[n] = proc.open[n]
       /\ l.op \in {"close", "finalize"} =>
             \A n \in FdNums \ {proc.refs[l.arg].fd} : proc'.open[n] = proc.open[n]
       /\ l.op = "extclose" =>
             \A n \in FdNums \ {l.arg} : proc'.open[n] = proc.open[n]

C14_DupIsIndependent == [][C14_Step]_vars

C14_Witness ==
    /\ proc.last.op = "close" /\ proc.last.argMap # 0
    /\ proc.calls = <<Sys("close", proc.calls[1].fd, 0)>>
    /\ \E n \in FdNums : proc.open[n] = proc.last.argMap

\* C15 as stated: when the descriptor passed to createMapRef is not open,
\* createMapRef throws and no handle that owns the descriptor number exists
\* afterwards, in duplicate mode and in transfer mode.
C15_AsStated ==
    (proc.last.op = "createMapRef" /\ proc.last.argMap = 0) =>
        /\ proc.last.err # "none"
        /\ \A h \in DOMAIN proc.refs :
              h > proc.last.before => proc.refs[h].fd # proc.last.arg

\* a number is an integer in [0, 2^32 - 1]
IsU32(x) == x.tenths = 0 /\ x.hi >= 0 /\ x.hi < 2 ^ 16

\* C18: createMap throws a range error without any kernel call, the creation
\* of an inner map included, when keySize, valueSize or maxEntries is not an
\* integer in [0, 2^32 - 1].
C18_SizesChecked ==
    (proc.last.op = "createMap"
        /\ ~(IsU32(proc.last.meta.keySize) /\ IsU32(proc.last.meta.valueSize)
                /\ IsU32(proc.last.meta.maxEntries))) =>
        /\ proc.last.err = "range"
        /\ proc.calls = <<>>
        /\ Len(proc.refs) = proc.last.before

C18_Witness ==
    /\ proc.last.op = "createMap" /\ proc.last.kind = "def"
    /\ proc.last.meta.keySize = Num(2 ^ 16, 0, 0)
    /\ proc.last.err = "range" /\ proc.calls = <<>>

\* C16 (amended): after close() reading fd fails with the closed error, while
\* type, keySize, valueSize, maxEntries and flags stay readable and keep the
\* values the handle was created with.
C16_InfoOutlivesClose ==
    fd = -1 =>
        /\ lastOp.op = "fd" => lastOp.err = "closed"
        /\ lastOp.op = "info" => (lastOp.err = "none" /\ lastOp.ret = Some(ref))

C16_Witness ==
    /\ fd = -1 /\ userCloses > 0
    /\ lastOp.op = "info" /\ lastOp.err = "none" /\ lastOp.ret = Some(ref)

\* C16 as stated: after close(), access to the metadata of the handle fails
\* with a closed error, like access to its fd.
C16_AsStated ==
    (fd = -1 /\ lastOp.op \in {"fd", "info"}) => lastOp.err = "closed"

MutatingOps == {"RawMap.set", "RawMap.delete", "RawMap.getDelete",
                "RawQueueMap.push", "RawQueueMap.pop"}
ReadingOps == {"RawMap.get", "RawQueueMap.peek"}

\* what a read returns from the contents m of a map of type t
Held17(t, m, o) ==
    CASE t = "HASH" -> RefGet(m, o.key[1].val)
      [] t = "QUEUE" -> IF m = <<>> THEN None ELSE Some(m[1].v)
      [] t = "STACK" -> IF m = <<>> THEN None ELSE Some(m[Len(m)].v)

\* C17: a freeze() that returns normally leaves the map frozen; on a frozen
\* map every set, delete, getDelete, push and pop throws and the contents
\* stay as they were, get and peek return from those contents, and the map
\* stays frozen whatever is called.
C17_Step ==
    LET o == lastOp'
    IN /\ (o.op = "RawMap.freeze" /\ o.err = "none") => kfrozen'
       /\ kfrozen =>
             /\ kfrozen' /\ kmap' = kmap
             /\ o.op \in MutatingOps => o.err # "none"
             /\ (o.op \in MutatingOps /\ BufsOk(o)) =>
                   (o.err = "bpf" /\ o.errno = EPERM)
             /\ (o.op \in ReadingOps /\ BufsOk(o)) =>
                   (o.err = "none" /\ o.ret = Held17(ref.type, kmap, o))

C17_FrozenStaysFrozen == [][C17_Step]_vars

C17_Witness ==
    /\ kfrozen /\ kmap # <<>>
    /\ lastOp.op = "RawQueueMap.pop" /\ lastOp.err = "bpf" /\ lastOp.errno = EPERM
\* an integer in [0, length)
IndexValid(x) == x.tenths = 0 /\ x.hi = 0 /\ x.lo < ref.maxEntries

\* C19: get, set and setBatch of RawArrayMap throw a RangeError without any
\* kernel call when an index given is not an integer in [0, length) (an index
\* >= length, a negative index, a non-integer index), and no RangeError is
\* thrown when every index given is an integer in [0, length).
C19_IndexChecked ==
    /\ lastOp.op \in ArrayOps =>
          IF IndexValid(lastOp.key[1].val)
          THEN lastOp.err # "range"
          ELSE lastOp.err = "range" /\ ~lastOp.kcall /\ ~lastOp.changed
    /\ bop.op = "RawArrayMap.setBatch" =>
          IF \A i \in DOMAIN bop.arg : IndexValid(bop.arg[i].k)
          THEN bop.err # "range"
          ELSE bop.err = "range" /\ ~bop.kcall /\ bcall = NoBCall

C19_Witness ==
    /\ bop.op = "RawArrayMap.setBatch" /\ bop.err = "range" /\ ~bop.kcall
    /\ Len(bop.arg) = 2
    /\ IndexValid(bop.arg[1].k)
    /\ bop.arg[2].k = NumOf(ref.maxEntries)
C21_PushOrderKept ==
    qu.others = 0 =>
        /\ Len(qu.popped) <= Len(qu.pushed)
        /\ ref.type = "QUEUE" =>
              \A i \in DOMAIN qu.popped : qu.popped[i] = qu.pushed[i]
        /\ (ref.type = "STACK" /\ ~qu.mixed) =>
              \A i \in DOMAIN qu.popped : qu.popped[i] = qu.pushed[Len(qu.pushed) + 1 - i]
        /\ lastOp.op = "RawQueueMap.pop" =>
              /\ ~(lastOp.err = "bpf" /\ lastOp.errno = ENOENT)
              /\ (lastOp.err = "none" /\ lastOp.ret = None) =>
                    Len(qu.popped) = Len(qu.pushed)
              /\ (BufsOk(lastOp) /\ Len(qu.popped) < Len(qu.pushed)) =>
                    (lastOp.err = "none" /\ lastOp.ret # None)

C21_Witness ==
    /\ ref.type = "STACK" /\ qu.others = 0 /\ ~qu.mixed
    /\ Len(qu.pushed) = 2 /\ qu.pushed[1] # qu.pushed[2]
    /\ qu.popped = <<qu.pushed[2], qu.pushed[1]>>
    /\ lastOp.op = "RawQueueMap.pop"

\* C22: consumeValues(limit) calls pop at most limit times, yields every
\* value it has removed from the queue, and is finished as soon as the limit
\* is reached or a pop found the queue empty, whatever another actor pushes.
C22_ConsumeBounded ==
    LET c == qu.cv IN
    /\ c.removed = c.yields
    /\ c.limit # None => (c.pops <= c.limit[1] /\ c.yields <= c.limit[1])
    /\ c.pc = "yielded" => (c.item # None /\ c.yields = c.pops)
    /\ c.pc = "done" =>
          \/ c.limit # None /\ c.yields = c.limit[1]
          \/ c.pops = c.yields + 1 /\ c.item = None

C22_Witness ==
    /\ qu.cv.pc = "done" /\ qu.cv.limit = Some(1) /\ qu.cv.yields = 1
    /\ qu.others > 0
    /\ kmap # <<>>

\* C23: peek and empty leave the queue as it is; with no other actor, peek
\* returns undefined exactly when every value pushed has been popped, a pop
\* that follows a peek returns the value peek returned, and empty returns
\* true exactly when every value pushed has been popped.
C23_Step ==
    LET o == lastOp'
        call == qu'.others = qu.others /\ qu'.cv.pc = "idle" /\ qu.cv.pc # "start"
        drained == Len(qu.popped) = Len(qu.pushed)
    IN (call /\ qu.others = 0) =>
          /\ o.op \in {"RawQueueMap.peek", "RawQueueMap.empty"} =>
                /\ kmap' = kmap
                /\ qu'.pushed = qu.pushed /\ qu'.popped = qu.popped
          /\ (o.op = "RawQueueMap.peek" /\ o.err = "none") => (o.ret = None <=> drained)
          /\ (o.op = "RawQueueMap.empty" /\ o.err = "none") => o.ret = Some(drained)
          /\ (o.op = "RawQueueMap.pop" /\ o.err = "none"
              /\ lastOp.op = "RawQueueMap.peek" /\ lastOp.err = "none") =>
                o.ret = lastOp.ret

C23_PeekKeepsQueue == [][C23_Step]_vars

C23_Witness ==
    /\ lastOp.op = "RawQueueMap.empty" /\ lastOp.ret = Some(FALSE)
    /\ qu.others = 0 /\ qu.pushed # <<>> /\ ref.type = "STACK"
\* C24 (amended): over a map nobody changes, every batch yielded by getBatch
\* holds between 1 and batchSize entries, which are the entries of the map
\* that follow those yielded before; an empty map yields no batch; a getBatch
\* that finishes has yielded each entry exactly once; a getBatch that throws
\* was refused with ENOSPC by the kernel, with more entries left than
\* batchSize.
C24_EachEntryOnce ==
    gb.env = "map" =>
        /\ gb.seen <= Len(kmap)
        /\ gb.pc = "yielded" =>
              /\ Len(gb.batch) >= 1 /\ Len(gb.batch) <= gb.batchSize
              /\ \A i \in DOMAIN gb.batch :
                    gb.batch[i].val = kmap[gb.seen - Len(gb.batch) + i]
        /\ gb.pc = "done" => gb.seen = Len(kmap)
        /\ kmap = <<>> => (gb.seen = 0 /\ gb.pc # "yielded")
        /\ (gb.pc = "thrown" /\ gb.err = "bpf") =>
              (gb.status = -ENOSPC /\ gb.batchSize < Len(kmap) - gb.seen)

C24_Witness ==
    /\ gb.env = "map" /\ gb.pc = "done"
    /\ gb.batchSize = 2 /\ gb.seen = 3 /\ Len(kmap) = 3
    /\ Len(gb.calls) >= 2

\* C24 as stated: for every batchSize >= 1, a getBatch that has ended has
\* yielded each entry of the map exactly once.
C24_AsStated ==
    (gb.env = "map" /\ gb.batchSize >= 1 /\ gb.pc \in {"done", "thrown"}) =>
        gb.seen = Len(kmap)

\* what the consumer reads in an entry it was handed
Observed(x) == IF x.alias THEN gb.buf[x.at] ELSE x.val

Without(m, ks) == SelectSeq(m, LAMBDA e : e.k \notin ks)

\* the key at position i of a deleteBatch list cannot be deleted from m: it
\* is not in m, or an earlier position of the list already deleted it
MissingAt(m, keys, i) ==
    \/ ~HasKey(m, keys[i].val)
    \/ \E h \in 1 .. (i - 1) : keys[h].val = keys[i].val
FirstMissing(m, keys) ==
    CHOOSE i \in DOMAIN keys : MissingAt(m, keys, i)
                                  /\ \A h \in 1 .. (i - 1) : ~MissingAt(m, keys, h)
KeysBefore(keys, i) == {keys[h].val : h \in 1 .. (i - 1)}

\* C26: a deleteBatch that reaches a key absent from the map throws a
\* BPFError carrying ENOENT; the keys listed before that key have been
\* deleted, and every other entry, the keys listed after it included, is
\* still in the map
C26_Step ==
    (bop'.op = "RawMap.deleteBatch" /\ bop'.kcall
        /\ \E i \in DOMAIN bop'.arg : MissingAt(kmap, bop'.arg, i))
    => LET keys == bop'.arg
           j == FirstMissing(kmap, keys)
       IN /\ bop'.err = "bpf" /\ bop'.errno = ENOENT
          /\ kmap' = Without(kmap, KeysBefore(keys, j))
          /\ \A h \in (j + 1) .. Len(keys) :
                (HasKey(kmap, keys[h].val) /\ keys[h].val \notin KeysBefore(keys, j))
                   => HasKey(kmap', keys[h].val)
C26_DeleteBatchStops == [][C26_Step]_vars

\* a deleteBatch has thrown ENOENT after deleting a key, and a key listed after
\* the absent one is still in the map
C26_Witness ==
    /\ bop.op = "RawMap.deleteBatch" /\ bop.err = "bpf" /\ bop.errno = ENOENT
    /\ Len(bop.arg) = 3
    /\ ~HasKey(kmap, bop.arg[1].val)
    /\ ~HasKey(kmap, bop.arg[2].val)
    /\ HasKey(kmap, bop.arg[3].val)
    /\ bop.arg[1].val # bop.arg[2].val
    /\ bop.count = Some(1)

\* an iteration started on an empty map has yielded nothing
YieldsNothing == it.out = <<>> /\ it.item = None /\ it.pc = "done"

\* C27: with no other actor changing the map, a clear() that was called ends,
\* without throwing, with the map empty, so that every entry the map held when
\* it started is gone; an iteration that follows yields no entry.
C27_ClearEmpties ==
    /\ [](it.clear => it.pc # "thrown")
    /\ []((it.clear /\ it.start = None /\ it.pc = "done") =>
             \A i \in DOMAIN it.map : ~HasKey(kmap, it.map[i].k))
    /\ []((~it.clear /\ it.pc # "idle" /\ it.map = <<>>) => YieldsNothing)
    /\ ((it.clear /\ it.start = None) ~> (it.clear /\ it.pc = "done" /\ kmap = <<>>))

\* clear() has ended on a map that was full when it was called
C27_Witness ==
    /\ it.clear /\ it.start = None /\ it.pc = "done"
    /\ Len(it.map) = MaxIterKey + 1
    /\ kmap = <<>>

\* the position of key k in the map the iteration started on (0: not there)
PosIn(m, k) == IF HasKey(m, k) THEN IndexOf(m, k) ELSE 0
\* the keys keys(start) has to yield, in the map's order
KeysAfter(m, start) ==
    LET from == IF start = None THEN 0 ELSE PosIn(m, start[1])
    IN [i \in 1 .. (Len(m) - from) |-> m[from + i].k]

\* C28: on a map nothing changes, keys(start) yields, in the map's order, the
\* keys placed after start when the map holds start (start itself is not
\* yielded), and every key of the map when start is omitted or not in the map.
C28_KeysFromStart ==
    (it.track /\ it.mode = "keys" /\ ~it.clear /\ it.pc # "idle") =>
        LET want == KeysAfter(it.map, it.start) IN
        /\ it.pc # "thrown"
        /\ Len(it.out) <= Len(want)
        /\ \A i \in DOMAIN it.out : it.out[i] = want[i]
        /\ it.pc = "done" => it.out = want
        /\ (it.start # None /\ HasKey(it.map, it.start[1])) =>
              \A i \in DOMAIN it.out : it.out[i] # it.start[1]

\* keys(start) has ended after yielding the two keys behind start, the first
\* key of a map of three
C28_Witness ==
    /\ it.track /\ it.mode = "keys" /\ ~it.clear /\ it.pc = "done"
    /\ Len(it.map) = 3 /\ it.start = Some(it.map[1].k)
    /\ it.out = <<it.map[2].k, it.map[3].k>>

\* the status of the metadata query the last call made, if it made one
InfoCall == {i \in DOMAIN proc.calls : proc.calls[i].c = "info"}
InfoStatus == proc.calls[CHOOSE i \in InfoCall : TRUE].st

\* C29: a createMapRef that reached the metadata query returns a handle
\* carrying the caller's parameters when the query answered EINVAL and
\* parameters were supplied, returns a handle carrying the metadata the kernel
\* reports when the query succeeded, supplied parameters or not, and throws
\* the query's error in every other case.
C29_InfoFallback ==
    (proc.last.op = "createMapRef" /\ InfoCall # {}) =>
        LET st == InfoStatus
            h == proc.last.h
        IN /\ (st = -EINVAL /\ proc.last.kind = "params") =>
                 /\ proc.last.err = "none" /\ h # 0
                 /\ proc.refs[h].meta = proc.last.meta
           /\ st = 0 =>
                 /\ proc.last.err = "none" /\ h # 0
                 /\ proc.refs[h].meta = proc.kmeta[proc.last.argMap]
           /\ (st < 0 /\ ~(st = -EINVAL /\ proc.last.kind = "params")) =>
                 /\ proc.last.err = "bpf" /\ proc.last.errno = -st
                 /\ h = 0

\* the query succeeded for a caller that supplied parameters, and the handle
\* carries what the kernel reported, which the parameters differ from
C29_Witness ==
    /\ proc.last.op = "createMapRef" /\ proc.last.kind = "params"
    /\ InfoCall # {} /\ InfoStatus = 0
    /\ proc.last.h # 0
    /\ proc.refs[proc.last.h].meta = proc.kmeta[proc.last.argMap]
    /\ proc.refs[proc.last.h].meta # proc.last.meta

InnerFdOf(l, p) == IF l.kind = "ref" THEN p.refs[l.arg].fd ELSE l.arg

\* C31: a createMap whose innerMap is an open handle or an open descriptor
\* number, whether it returns a handle or throws, makes no close and no dup
\* call on that descriptor, leaves the descriptor open on the same map and
\* leaves the given handle as it was, still holding its descriptor.
C31_Step ==
    (proc'.last.op = "createMap" /\ proc'.last.kind \in {"ref", "fd"} /\ proc' # proc
        /\ proc.open[InnerFdOf(proc'.last, proc)] # 0) =>
        LET n == InnerFdOf(proc'.last, proc)
        IN /\ proc'.open[n] = proc.open[n]
           /\ \A i \in DOMAIN proc'.calls :
                 proc'.calls[i].c \in {"close", "dup"} => proc'.calls[i].fd # n
           /\ proc'.last.kind = "ref" =>
                 /\ proc'.refs[proc'.last.arg] = proc.refs[proc'.last.arg]
                 /\ proc'.refs[proc'.last.arg].fd = n
C31_InnerMapUntouched == [][C31_Step]_vars

\* createMap was given an open handle as innerMap and failed in the kernel;
\* the handle still holds its open descriptor
C31_Witness ==
    /\ proc.last.op = "createMap" /\ proc.last.kind = "ref" /\ proc.last.err = "bpf"
    /\ proc.last.arg \in Held
    /\ proc.refs[proc.last.arg].fd # -1
    /\ proc.open[proc.refs[proc.last.arg].fd] # 0
    /\ \E i \in DOMAIN proc.calls : proc.calls[i].c = "create" /\ proc.calls[i].st < 0

\* the handle r is of the kind the interface class k is made for
KindOk(k, r) ==
    CASE k \in {"RawArrayMap", "ConvArrayMap"} -> r.type = "ARRAY"
      [] k \in {"RawQueueMap", "ConvQueueMap"} ->
            r.type \in {"QUEUE", "STACK"} /\ r.keySize = 0
      [] OTHER -> TRUE
NewOps == {"new " \o k : k \in IfaceKinds}

\* C32: the constructor of an array interface throws exactly when the handle
\* is not of type ARRAY, and the constructor of a queue interface exactly when
\* it is not a QUEUE or STACK with keySize 0; a constructor makes no kernel
\* call and leaves the handle, its descriptor and the map as they were, and
\* no later operation throws the constructor's error.
C32_Step ==
    /\ \A k \in IfaceKinds :
          (lastOp'.op = "new " \o k /\ <<lastOp, ifs>>' # <<lastOp, ifs>>) =>
              /\ (lastOp'.err # "none") <=> ~KindOk(k, ref)
              /\ ifs'.made = (IF KindOk(k, ref) THEN ifs.made \cup {k} ELSE ifs.made)
              /\ ~lastOp'.kcall
              /\ UNCHANGED <<handleVars, kmap, proc>>
    /\ lastOp'.op \notin NewOps => lastOp'.err \notin {"kind", "assert"}
C39_Step ==
    /\ lastOp'.op # "close" => UNCHANGED <<fd, origFd, closeLog, proc>>
    /\ (fd' = -1 /\ lastOp'.op # "close" /\ lastOp'.op \notin NewOps) =>
          /\ lastOp'.err \in {"closed", "size", "range"}
          /\ ~lastOp'.kcall
          /\ kmap' = kmap
          /\ ifs'.last.op # "none" => ifs'.last.err = lastOp'.err
C39_HandleShared == [][C39_Step]_vars

\* four interfaces were constructed over one array handle, which was then
\* closed once, and a call through one of them has thrown
C39_Witness ==
    /\ ifs.made = {"RawMap", "ConvMap", "RawArrayMap", "ConvArrayMap"}
    /\ fd = -1 /\ Len(closeLog) = 1
    /\ lastOp.op = "RawArrayMap.get" /\ lastOp.err = "closed"
    /\ ifs.last.op = "ConvArrayMap.get"

MaybeOps == {"ConvMap.get", "ConvMap.getDelete", "ConvQueueMap.peek", "ConvQueueMap.pop"}

\* C33: a get or getDelete of ConvMap and a peek or pop of ConvQueueMap whose
\* raw call found nothing returns undefined without a call of the codec's
\* parse; when the raw call returned a buffer, parse is called once, on that
\* buffer, and its result is returned; a raw call that throws is not parsed.
C33_AbsentNotParsed ==
    ifs.last.op \in MaybeOps =>
        /\ (lastOp.err = "none" /\ lastOp.ret = None) =>
              /\ ifs.last.err = "none" /\ ifs.last.ret = None
              /\ ifs.last.parsed = 0
        /\ (lastOp.err = "none" /\ lastOp.ret # None) =>
              /\ ifs.last.parsed = 1
              /\ ifs.last.ret = Some(U32Parse(lastOp.ret[1]))
        /\ lastOp.err # "none" => (ifs.last.parsed = 0 /\ ifs.last.err = lastOp.err)

\* a getDelete through ConvMap reached the kernel, which had no entry for the
\* key while the map held another one
C33_Witness ==
    /\ ifs.last.op = "ConvMap.getDelete"
    /\ lastOp.kcall /\ lastOp.st = -ENOENT
    /\ ifs.last.ret = None /\ ifs.last.parsed = 0
    /\ kmap # <<>>

\* u32 values around the byte and half-word boundaries
U32Samples == {Num(h, l, 0) : h, l \in {0, 1, 255, 256, 2 ^ 15, 2 ^ 16 - 1}}
GetOps == {"ConvMap.get", "ConvArrayMap.get"}

\* C36: u32type parses what it formatted back to the same number for the
\* integers of [0, 2^32 - 1], and a get through ConvMap or ConvArrayMap returns
\* the number last set for the key through the same interface when that
\* number is such an integer, 2^32 - 1 included.
C36_U32RoundTrip ==
    /\ \A v \in U32Samples \cup ConvVals : IsU32(v) => U32Parse(U32Format(v)) = v
    /\ (ifs.last.op \in GetOps /\ ifs.last.err = "none"
           /\ TypedAt(ifs.last.arg[1]) # None /\ IsU32(TypedAt(ifs.last.arg[1])[1])) =>
          ifs.last.ret = TypedAt(ifs.last.arg[1])

\* 2^32 - 1 was set at an index of an array map and get has returned it
C36_Witness ==
    /\ ifs.last.op = "ConvArrayMap.get" /\ ifs.last.err = "none"
    /\ TypedAt(ifs.last.arg[1]) = Some(U32Max)
    /\ ifs.last.ret = Some(U32Max)

\* the bit NUMA_NODE of a 32-bit flags word
HasNumaBit(x) == (x.lo \div NUMA_NODE) % 2 = 1
\* two flags words that agree on every bit but NUMA_NODE
SameButNumaBit(x, y) ==
    /\ x.hi = y.hi /\ x.tenths = y.tenths
    /\ x.lo % NUMA_NODE = y.lo % NUMA_NODE
    /\ x.lo \div (2 * NUMA_NODE) = y.lo \div (2 * NUMA_NODE)

\* C34: the flags word createMap hands to the kernel is the caller's flags, 0
\* when the caller gave none; when numaNode is given (0 included) the bit
\* NUMA_NODE is set in it and every other bit is the caller's, and when
\* numaNode is not given the word is the caller's flags as they are.
C34_NumaFlag ==
    (proc.last.op = "createMap" /\ proc.last.kind = "flags" /\ proc.last.attr # None) =>
        LET given == IF proc.last.flags = None THEN NumOf(0) ELSE proc.last.flags[1]
            passed == proc.last.attr[1].flags
        IN IF proc.last.numaNode # None
           THEN HasNumaBit(passed) /\ SameButNumaBit(passed, given)
           ELSE passed = given

\* a map was created with numaNode 0 and no flags: the kernel was given
\* exactly NUMA_NODE
C34_Witness ==
    /\ proc.last.op = "createMap" /\ proc.last.kind = "flags" /\ proc.last.err = "none"
    /\ proc.last.flags = None /\ proc.last.numaNode = Some(NumOf(0))
    /\ proc.last.attr # None /\ proc.last.attr[1].flags = NumOf(NUMA_NODE)

\* the error codes the claim C35 names
NamedErrnos == {ENOTSUPP, EINVAL} \cup {LIBELF + i : i \in 0 .. Len(LibbpfNames) - 1}

\* C35: checkStatus throws exactly when the status is negative; the BPFError
\* carries errno = -status, the operation it was given, the count when one was
\* given and no count otherwise, and a code that is "ENOTSUPP" for 524,
\* "EINVAL" for EINVAL and the enum's name in the libbpf range, all of them
\* different from each other.
C35_CheckStatus ==
    /\ (lastOp.thrown # None) <=> (lastOp.st < 0)
    /\ lastOp.thrown # None =>
          /\ lastOp.thrown[1].errno = -lastOp.st
          /\ lastOp.thrown[1].operation = lastOp.op
          /\ lastOp.thrown[1].count = lastOp.count
          /\ lastOp.st = -ENOTSUPP => lastOp.thrown[1].code = "ENOTSUPP"
          /\ lastOp.st = -EINVAL => lastOp.thrown[1].code = "EINVAL"
          /\ IsLibbpfErrno(-lastOp.st) =>
                lastOp.thrown[1].code = LibbpfNames[-lastOp.st - LIBELF + 1]
          /\ \A e \in NamedErrnos :
                e # -lastOp.st => GetCode(e) # lastOp.thrown[1].code

\* a batch update that failed with ENOTSUPP after one entry
C35_Witness ==
    /\ lastOp.op = "bpf_map_update_batch" /\ lastOp.st = -ENOTSUPP
    /\ lastOp.count = Some(1)
    /\ lastOp.thrown # None /\ lastOp.thrown[1].code = "ENOTSUPP"
    /\ lastOp.thrown[1].count = Some(1)

\* the value buffers of the entries of the last bulk update of an array
ValueBufs(b) ==
    IF b.op = "RawArrayMap.setAll" THEN b.arg
    ELSE [i \in DOMAIN b.arg |-> b.arg[i].v]

\* C37 (as stated): whenever setBatch or setAll of RawArrayMap has made its
\* kernel call, every value buffer had valueSize bytes, so that valuesBuf held
\* (number of entries) x valueSize bytes.
C37_AsStated ==
    (bop.op \in {"RawArrayMap.setBatch", "RawArrayMap.setAll"} /\ bop.kcall) =>
        /\ \A i \in DOMAIN bop.arg : CheckBuf(ref.valueSize, ValueBufs(bop)[i])
        /\ ConcatLen(ValueBufs(bop)) = Len(bop.arg) * ref.valueSize

\* a generator step left the generator thrown with "FD was closed"
ThrewClosed(g) == g.pc = "thrown" /\ g.err = "closed"
\* consumeValues has reached its limit: the loop test ends it before pop()
AtLimit(c) ==
    c.limit # None /\ ~((IF c.pc = "yielded" THEN c.i + 1 ELSE c.i) < c.limit[1])

\* C38 (as stated): once the handle is closed, the pull that resumes a
\* suspended keys(), entries(), getBatch() or consumeValues() generator fails
\* with "FD was closed".
C38_StatedStep ==
    fd = -1 =>
        /\ (gb.pc = "yielded" /\ gb' # gb) => (gb'.pc = "loop" \/ ThrewClosed(gb'))
        /\ (it.pc = "yielded" /\ it' # it) => (it'.pc = "prefetch" \/ ThrewClosed(it'))
        /\ (qu.cv.pc = "yielded" /\ qu' # qu) => ThrewClosed(qu'.cv)
C38_AsStated == [][C38_StatedStep]_vars

\* C38: a step of a generator that enters the kernel is made on an open
\* handle, with the descriptor the handle holds at that moment; on a closed
\* handle a step that has a kernel call to make throws "FD was closed"
\* without making it, and the only pulls that end otherwise are those with no
\* call left to make: getBatch resumed after its last batch returns or throws
\* the status it was given, keys() / entries() resumed after the last key
\* return, and consumeValues at its limit returns.
C38_Step ==
    /\ Len(gb'.calls) > Len(gb.calls) => (fd # -1 /\ FdOpen(fd))
    /\ (it.pc \in {"idle", "prefetch", "lookup"} /\ it' # it /\ ~ThrewClosed(it')) => fd # -1
    /\ (qu'.cv.pops > qu.cv.pops /\ ~ThrewClosed(qu'.cv)) => fd # -1
    /\ fd = -1 =>
          /\ (gb.pc = "loop" /\ gb' # gb) =>
                (ThrewClosed(gb') /\ gb'.calls = gb.calls /\ bcall' = bcall)
          /\ (gb.pc = "yielded" /\ gb' # gb) =>
                (gb'.calls = gb.calls /\ gb'.pc = GbAfterYield(gb.status))
          /\ (it.pc \in {"idle", "prefetch", "lookup"} /\ it' # it) => ThrewClosed(it')
          /\ (it.pc = "yielded" /\ it' # it) =>
                it'.pc = (IF it.next = None THEN "done" ELSE "prefetch")
          /\ (qu.cv.pc \in {"start", "yielded"} /\ qu' # qu) =>
                IF AtLimit(qu.cv)
                THEN qu'.cv.pc = "done" /\ qu'.cv.pops = qu.cv.pops
                ELSE ThrewClosed(qu'.cv)
          /\ kmap' = kmap
C38_ReadsFdAtCall == [][C38_Step]_vars

\* keys() was suspended on a key that has a successor, the handle was closed,
\* and the next pull has thrown "FD was closed"
C38_Witness ==
    /\ fd = -1 /\ Len(closeLog) = 1
    /\ ThrewClosed(it) /\ it.out # <<>> /\ it.key # None

GbEnded == gb.pc \in {"done", "thrown"}

\* C40 (as stated): getBatch has stopped only after a kernel batch call that
\* returned a negative status.
C40_AsStated == GbEnded => (gb.calls # <<>> /\ gb.status < 0)

\* what a step of getBatch may do
C40_Step ==
    /\ (~GbEnded /\ GbEnded') =>
          \/ gb'.pc = "done" /\ gb'.calls # <<>> /\ gb'.status = -ENOENT
          \/ gb'.pc = "thrown" /\ gb'.err = "bpf" /\ gb'.calls # <<>>
                /\ gb'.status < 0 /\ gb'.status # -ENOENT
          \/ gb'.pc = "thrown" /\ gb'.err = "batchSize" /\ gb'.calls = <<>>
          \/ gb'.pc = "thrown" /\ gb'.err = "closed" /\ fd = -1 /\ gb'.calls = gb.calls
          \/ gb'.pc = "thrown" /\ gb'.err = "nonseq" /\ gb'.iface = "RawArrayMap"
                /\ Len(gb'.calls) = Len(gb.calls) + 1
    /\ (gb.pc = "yielded" /\ gb.status >= 0 /\ gb' # gb) => gb'.pc = "loop"
    /\ (gb.pc = "loop" /\ gb.calls # <<>> /\ gb' # gb) =>
          /\ gb.status >= 0
          /\ Len(gb'.calls) = Len(gb.calls) + 1 \/ (fd = -1 /\ gb'.err = "closed")

\* C40: getBatch ends cleanly after a kernel call that returned ENOENT and
\* throws after one that returned another negative status; its only other
\* ends are the errors for a batch size that is not a positive u32 (before
\* any call), for a closed handle, and for indexes out of sequence in
\* RawArrayMap; after every non-negative status the next pull makes another
\* kernel call, unless the handle was closed meanwhile.  Hence over a map that
\* nobody changes, served by a kernel whose cursor advances, a getBatch that
\* is pulled again and again ends, after at most one call per entry and one
\* more.
C40_Terminates ==
    /\ [][C40_Step]_vars
    /\ [](gb.env = "map" => Len(gb.calls) <= Len(kmap) + 1)
    /\ [](gb.env = "map" /\ gb.pc \in {"loop", "yielded"} => <>(GbEnded \/ ~Alive))

\* getBatch(1) has ended cleanly over a map of MaxBatch + 1 entries that
\* nobody changed, having yielded every entry, one kernel call per batch
C40_Witness ==
    /\ gb.env = "map" /\ gb.pc = "done" /\ gb.batchSize = 1
    /\ Len(kmap) = MaxBatch + 1 /\ gb.seen = Len(kmap)
    /\ Len(gb.calls) >= MaxBatch + 1
    /\ fd # -1

====
